---- MODULE Spec2Model ----
(***************************************************************************)
(* Alert decision layer of the monitoring repository: AlertRateLimiter and *)
(* AlertManager (src/src/core/alert_manager.py) and AlertingSystem         *)
(* (src/src/core/alerting_system.py); the quality-metrics engine           *)
(* (src/src/core/data_quality.py), the anomaly detector                    *)
(* (src/src/core/detector_anomalias.py) and the configuration manager      *)
(* (src/config/config_manager.py).                                         *)
(*                                                                         *)
(* Time is counted in minutes.  Scores and thresholds are hundredths       *)
(* (0.95 is 95).  Python's None is the string None below, except in an     *)
(* Optional[float] field, which is <<>> for None and <<x>> for the value   *)
(* x.  A dict is a function whose DOMAIN is the set of keys it holds.      *)
(***************************************************************************)
EXTENDS Integers, Sequences, FiniteSets, TLC

VARIABLES
    now,                  \* the wall clock read by datetime.now()
    config,               \* AlertingSystem.config
    slack_notifier,       \* AlertingSystem.slack_notifier (None when disabled)
    rate_limiter,         \* AlertManager.rate_limiter (None when disabled)
    max_alerts_per_hour,  \* AlertRateLimiter.max_alerts_per_hour
    cooldown_minutes,     \* AlertRateLimiter.cooldown_minutes
    alert_history,        \* AlertRateLimiter.alert_history  (defaultdict(list))
    cooldown_until,       \* AlertRateLimiter.cooldown_until (dict)
    alerts,               \* AlertManager.alerts (list of Alert)
    metrics_history,      \* DataQualityMetrics.metrics_history (list of reports)
    metrics_file,         \* the JSON file save_metrics writes and
                          \* load_metrics_history reads
    anomaly_history,      \* DetectorAnomalias.anomaly_history (list of reports)
    report_file,          \* the JSON file save_report writes
    config_yaml,          \* the file at ConfigManager.config_path
    cached_config,        \* ConfigManager._config (<<>> is None)
    established,          \* history variable: the Config of the most recent
                          \* successful load, reload or save (<<>>: none yet)
    calls,                \* history variable: per key, every can_send_alert call
                          \* made so far as [t, allowed], in call order
    last                  \* history variable: the operation performed last

(* the state of the quality-metrics engine *)
engine_vars == <<metrics_history, metrics_file>>

(* the state of the anomaly detector *)
detector_vars == <<anomaly_history, report_file>>

(* the state of the configuration manager and its file *)
settings_vars == <<config_yaml, cached_config, established>>

(* the state of the alerting system, its manager and its limiter *)
alerting_vars == <<config, slack_notifier, rate_limiter, max_alerts_per_hour,
                   cooldown_minutes, alert_history, cooldown_until, alerts,
                   calls>>

vars == <<now, config, slack_notifier, rate_limiter, max_alerts_per_hour,
          cooldown_minutes, alert_history, cooldown_until, alerts, calls,
          metrics_history, metrics_file, anomaly_history, report_file,
          config_yaml, cached_config, established, last>>

---------------------------------------------------------------------------
(* Bounds of the model *)

MaxClock == 120     \* the clock stops advancing here
MaxCalls == 4       \* can_send_alert calls made in one behaviour
MaxAlerts == 2      \* largest max_alerts_per_hour tried (the default is 10)
MaxHistory == 1     \* AlertManager.create_alert calls made in one behaviour
MaxRows == 3        \* rows of a DataFrame
MaxReports == 2     \* analyze_dataset (detect_all) calls made in one behaviour
MaxColumns == 3     \* numeric columns of a frame handed to the detector

(* Clock advances between two operations, in minutes: of the limiter
   specification, and of the manager specification *)
Steps == {15, 30}

CoarseSteps == {30}

(* cooldown_minutes tried: the default and a cooldown as long as the window *)
Cooldowns == {30, 60}

---------------------------------------------------------------------------
(* Values of the program *)

HourMinutes == 60   \* timedelta(hours=1)

DayMinutes == 1440  \* timedelta(days=1)

DefaultCooldownMinutes == 30

None == "<None>"

INFO == "info"

WARNING == "warning"

ERROR == "error"

CRITICAL == "critical"

AlertSeverity == {INFO, WARNING, ERROR, CRITICAL}

(* d.get(k), d.get(k, default) *)
DictGet(d, k, default) == IF k \in DOMAIN d THEN d[k] ELSE default

(* del d[k] *)
DictDel(d, k) == [x \in (DOMAIN d) \ {k} |-> d[x]]

(* d[k] = v *)
DictPut(d, k, v) == [x \in (DOMAIN d) \cup {k} |-> IF x = k THEN v ELSE d[x]]

(* the empty dict *)
EmptyDict == [x \in {} |-> x]

(* a path at which there is no file *)
NoFile == [kind |-> "missing"]

(* d.get(k) where the values are lists: <<>> is None and <<l>> the list l *)
OptionalGet(d, k) == IF k \in DOMAIN d THEN <<d[k]>> ELSE <<>>

(* json.dump of a dict whose keys are strings writes one JSON object: the
   set of its members (name, value) *)
json_object(d) == {<<k, d[k]>> : k \in DOMAIN d}

(* json.load of a JSON object: the dict of its members *)
json_dict(o) == [k \in {m[1] : m \in o} |-> (CHOOSE m \in o : m[1] = k)[2]]

---------------------------------------------------------------------------
(* AlertRateLimiter *)

(* [ts for ts in self.alert_history[alert_key] if ts > cutoff_time] *)
Recent_cooldown_window(h, t) == SelectSeq(h, LAMBDA ts : ts > t - cooldown_minutes)

Recent_inclusive(h, t) == SelectSeq(h, LAMBDA ts : ts >= t - HourMinutes)

Recent(h, t) == SelectSeq(h, LAMBDA ts : ts > t - HourMinutes)

(* now < self.cooldown_until[alert_key], for a key the dict holds *)
InCooldown_reversed(c, k, t) == k \in DOMAIN c /\ t > c[k]

InCooldown_inclusive(c, k, t) == k \in DOMAIN c /\ t <= c[k]

InCooldown(c, k, t) == k \in DOMAIN c /\ t < c[k]

(* len(self.alert_history[alert_key]) >= self.max_alerts_per_hour *)
AtCap_off_by_one(h) == Len(h) > max_alerts_per_hour

AtCap(h) == Len(h) >= max_alerts_per_hour

(* can_send_alert with a denied call in cooldown pushing the expiry back *)
can_send_alert_extending_cooldown(h, c, k, t) ==
    IF InCooldown(c, k, t)
    THEN [allowed |-> FALSE,
          reason  |-> "Em cooldown. Aguarde " \o ToString(c[k] - t) \o " minutos",
          alert_history |-> h,
          cooldown_until |-> DictPut(c, k, t + cooldown_minutes)]
    ELSE LET c1 == DictDel(c, k)
             h1 == DictPut(h, k, Recent(DictGet(h, k, <<>>), t))
         IN  IF AtCap(h1[k])
             THEN [allowed |-> FALSE,
                   reason  |-> "Limite de " \o ToString(max_alerts_per_hour)
                               \o " alertas por hora atingido",
                   alert_history |-> h1,
                   cooldown_until |-> DictPut(c1, k, t + cooldown_minutes)]
             ELSE [allowed |-> TRUE, reason |-> "OK",
                   alert_history |-> DictPut(h1, k, Append(h1[k], t)),
                   cooldown_until |-> c1]

(* can_send_alert with the append placed before the cap test's return *)
can_send_alert_recording_denied(h, c, k, t) ==
    IF InCooldown(c, k, t)
    THEN [allowed |-> FALSE,
          reason  |-> "Em cooldown. Aguarde " \o ToString(c[k] - t) \o " minutos",
          alert_history |-> h, cooldown_until |-> c]
    ELSE LET c1 == DictDel(c, k)
             h1 == DictPut(h, k, Recent(DictGet(h, k, <<>>), t))
         IN  IF AtCap(h1[k])
             THEN [allowed |-> FALSE,
                   reason  |-> "Limite de " \o ToString(max_alerts_per_hour)
                               \o " alertas por hora atingido",
                   alert_history |-> DictPut(h1, k, Append(h1[k], t)),
                   cooldown_until |-> DictPut(c1, k, t + cooldown_minutes)]
             ELSE [allowed |-> TRUE, reason |-> "OK",
                   alert_history |-> DictPut(h1, k, Append(h1[k], t)),
                   cooldown_until |-> c1]

(* can_send_alert as a function of the limiter's state h (alert_history),
   c (cooldown_until), the key and the time t read at its first line.  The
   result carries the returned pair and the state the call leaves.
   Indexing the defaultdict h with a key it does not hold reads []. *)
can_send_alert(h, c, k, t) ==
    IF InCooldown(c, k, t)
    THEN [allowed |-> FALSE,
          reason  |-> "Em cooldown. Aguarde " \o ToString(c[k] - t) \o " minutos",
          alert_history |-> h, cooldown_until |-> c]
    ELSE LET c1 == DictDel(c, k)
             h1 == DictPut(h, k, Recent(DictGet(h, k, <<>>), t))
         IN  IF AtCap(h1[k])
             THEN [allowed |-> FALSE,
                   reason  |-> "Limite de " \o ToString(max_alerts_per_hour)
                               \o " alertas por hora atingido",
                   alert_history |-> h1,
                   cooldown_until |-> DictPut(c1, k, t + cooldown_minutes)]
             ELSE [allowed |-> TRUE, reason |-> "OK",
                   alert_history |-> DictPut(h1, k, Append(h1[k], t)),
                   cooldown_until |-> c1]

(* get_stats: the returned dict, and the history it leaves (indexing the
   defaultdict adds an empty list for a key it does not hold) *)
get_stats(h, c, k, t) ==
    [stats |-> [alert_key |-> k,
                alerts_last_hour |-> Len(Recent(DictGet(h, k, <<>>), t)),
                max_per_hour |-> max_alerts_per_hour,
                in_cooldown |-> k \in DOMAIN c,
                cooldown_until |-> DictGet(c, k, None)],
     alert_history |-> DictPut(h, k, DictGet(h, k, <<>>))]

---------------------------------------------------------------------------
(* Alert and its constructors *)

(* f"{x:.2%}" and f"{x:.2f}" of a value that is a whole number of hundredths
   resp. a whole number *)
FormatPercent(x) == ToString(x) \o ".00%"

FormatFixed(x) == ToString(x) \o ".00"

(* Alert(...): __post_init__ stamps the alert and gives it an empty metadata *)
Alert(severity, title, message, source, metric_name, metric_value, threshold, metadata, t) ==
    [severity |-> severity, title |-> title, message |-> message,
     source |-> source, metric_name |-> metric_name,
     metric_value |-> metric_value, threshold |-> threshold,
     timestamp |-> t, metadata |-> metadata]

create_quality_alert(metric_name, score, threshold, severity, t) ==
    Alert(severity,
          "Qualidade abaixo do esperado: " \o metric_name,
          "Metrica " \o metric_name \o " esta em " \o FormatPercent(score)
              \o ", abaixo do limite de " \o FormatPercent(threshold),
          "data_quality", metric_name, <<score>>, <<threshold>>, EmptyDict, t)

create_anomaly_alert(metric_name, current_value, expected_range, severity, t) ==
    Alert(severity,
          "Anomalia detectada: " \o metric_name,
          "Valor " \o FormatFixed(current_value) \o " fora do range esperado ("
              \o ToString(expected_range[1]) \o ", "
              \o ToString(expected_range[2]) \o ")",
          "anomaly_detector", metric_name, <<current_value>>, <<>>,
          [expected_range |-> expected_range], t)

create_pipeline_alert(pipeline_name, error_message, severity, t) ==
    Alert(severity,
          "Erro no pipeline: " \o pipeline_name,
          error_message,
          "pipeline", None, <<>>, <<>>, [pipeline |-> pipeline_name], t)

---------------------------------------------------------------------------
(* AlertManager *)

(* `metric_name or title`: None and "" are falsy *)
NameOrTitle(alert) ==
    IF alert.metric_name # None /\ alert.metric_name # ""
    THEN alert.metric_name
    ELSE alert.title

(* f"{alert.source}:{alert.metric_name or alert.title}" *)
alert_key_with_severity(alert) ==
    alert.source \o ":" \o NameOrTitle(alert) \o ":" \o alert.severity

alert_key(alert) == alert.source \o ":" \o NameOrTitle(alert)

(* the two early returns of should_send_alert: no limiter, or CRITICAL *)
Bypasses_limiter_only_when_disabled(alert) == rate_limiter = None

Bypasses(alert) == rate_limiter = None \/ alert.severity = CRITICAL

(* should_send_alert: the returned pair and the limiter state it leaves *)
should_send_alert_counting_critical(alert, h, c, t) ==
    IF rate_limiter = None
    THEN [allowed |-> TRUE, reason |-> "Rate limiting desabilitado",
          alert_history |-> h, cooldown_until |-> c]
    ELSE LET r == can_send_alert(h, c, alert_key(alert), t)
         IN  IF alert.severity = CRITICAL
             THEN [r EXCEPT !.allowed = TRUE,
                            !.reason = "Alerta critico - bypass rate limiting"]
             ELSE r

(* should_send_alert as a test that leaves the recording to the delivery *)
should_send_alert_without_recording(alert, h, c, t) ==
    IF Bypasses(alert)
    THEN [allowed |-> TRUE,
          reason |-> IF rate_limiter = None
                     THEN "Rate limiting desabilitado"
                     ELSE "Alerta critico - bypass rate limiting",
          alert_history |-> h, cooldown_until |-> c]
    ELSE [can_send_alert(h, c, alert_key(alert), t) EXCEPT !.alert_history = h]

should_send_alert(alert, h, c, t) ==
    IF Bypasses(alert)
    THEN [allowed |-> TRUE,
          reason |-> IF rate_limiter = None
                     THEN "Rate limiting desabilitado"
                     ELSE "Alerta critico - bypass rate limiting",
          alert_history |-> h, cooldown_until |-> c]
    ELSE can_send_alert(h, c, alert_key(alert), t)

(* AlertManager.create_alert: the alert it returns and the list it leaves *)
create_alert(l, severity, title, message, source, t) ==
    LET alert == Alert(severity, title, message, source, None, <<>>, <<>>,
                       EmptyDict, t)
    IN  [alert |-> alert, alerts |-> Append(l, alert)]

(* AlertManager.get_recent_alerts(hours) *)
get_recent_alerts(l, hours, t) ==
    SelectSeq(l, LAMBDA a : a.timestamp > t - hours * HourMinutes)

(* AlertManager.clear_old_alerts(days): the list it leaves *)
clear_old_alerts(l, days, t) ==
    SelectSeq(l, LAMBDA a : a.timestamp > t - days * DayMinutes)

(* AlertManager.get_summary *)
get_summary(l, t) ==
    LET recent == get_recent_alerts(l, 24, t)
        sources == {recent[i].source : i \in 1..Len(recent)}
    IN  [total_alerts |-> Len(l),
         last_24h |-> Len(recent),
         by_severity |->
            [severity \in AlertSeverity |->
                Len(SelectSeq(recent, LAMBDA a : a.severity = severity))],
         by_source |->
            [source \in sources |->
                Len(SelectSeq(recent, LAMBDA a : a.source = source))]]

---------------------------------------------------------------------------
(* AlertingSystem *)

(* _load_default_config; the channel ids and the on-call list are read from
   the environment *)
DefaultConfig ==
    [thresholds |->
        [completeness |-> [warning |-> 95, error |-> 90, critical |-> 80],
         uniqueness   |-> [warning |-> 98, error |-> 95, critical |-> 90],
         validity     |-> [warning |-> 95, error |-> 90, critical |-> 85]],
     channels |-> [info |-> "SLACK_CHANNEL_ID",
                   warning |-> "SLACK_ALERT_CHANNEL_WARNING",
                   error |-> "SLACK_ALERT_CHANNEL_WARNING",
                   critical |-> "SLACK_ALERT_CHANNEL_CRITICAL"],
     mentions |-> [critical |-> <<"SLACK_ONCALL_USER_ID">>]]

(* a caller's config (the `config` argument of __init__) that names only the
   metric it monitors *)
UniquenessOnlyConfig ==
    [thresholds |->
        [uniqueness |-> [warning |-> 98, error |-> 95, critical |-> 90]],
     channels |-> [warning |-> "alerts", error |-> "alerts",
                   critical |-> "oncall"],
     mentions |-> [critical |-> <<"U1", "U2">>]]

(* a caller's config whose completeness thresholds are its own *)
StrictConfig ==
    [thresholds |->
        [completeness |-> [warning |-> 98, error |-> 95, critical |-> 90]],
     channels |-> [warning |-> "alerts", error |-> "alerts",
                   critical |-> "oncall"],
     mentions |-> EmptyDict]

(* a caller's config whose mentions mapping names users for ERROR alerts as
   well as for CRITICAL ones *)
EscalationConfig ==
    [thresholds |->
        [completeness |-> [warning |-> 95, error |-> 90, critical |-> 80],
         uniqueness   |-> [warning |-> 98, error |-> 95, critical |-> 90]],
     channels |-> [warning |-> "alerts", error |-> "alerts",
                   critical |-> "oncall"],
     mentions |-> [error |-> <<"U_LEAD">>, critical |-> <<"U_ONCALL">>]]

Configs == {DefaultConfig, UniquenessOnlyConfig, StrictConfig, EscalationConfig}

(* self.config["thresholds"].get(metric_name,
                                  self.config["thresholds"]["completeness"]):
   Python evaluates the default argument before the call, so the lookup of
   "completeness" raises KeyError when the config has no such entry,
   whether or not metric_name is configured *)
thresholds_for(metric_name) ==
    IF "completeness" \notin DOMAIN config.thresholds
    THEN [raised |-> TRUE, exception |-> "KeyError: 'completeness'"]
    ELSE [raised |-> FALSE,
          thresholds |-> DictGet(config.thresholds, metric_name,
                                 config.thresholds["completeness"])]

(* the if / elif chain of check_data_quality *)
classify_inclusive(score, thresholds) ==
    IF score <= thresholds.critical
    THEN [severity |-> CRITICAL, threshold_value |-> thresholds.critical]
    ELSE IF score <= thresholds.error
    THEN [severity |-> ERROR, threshold_value |-> thresholds.error]
    ELSE IF score <= thresholds.warning
    THEN [severity |-> WARNING, threshold_value |-> thresholds.warning]
    ELSE [severity |-> None, threshold_value |-> None]

classify(score, thresholds) ==
    IF score < thresholds.critical
    THEN [severity |-> CRITICAL, threshold_value |-> thresholds.critical]
    ELSE IF score < thresholds.error
    THEN [severity |-> ERROR, threshold_value |-> thresholds.error]
    ELSE IF score < thresholds.warning
    THEN [severity |-> WARNING, threshold_value |-> thresholds.warning]
    ELSE [severity |-> None, threshold_value |-> None]

(* what SlackNotifier.send_alert does with one alert: returns True, returns
   False, or raises *)
Outcomes == {"sent", "failed", "raised"}

(* the `if not can_send: return False` of _send_alert_to_slack *)
Blocked_never(gate) == FALSE

Blocked(gate) == ~gate.allowed

(* the `except Exception` around slack_notifier.send_alert: what the
   notifier raises is caught *)
Caught_nothing(outcome) == FALSE

Caught(outcome) == outcome = "raised"

(* _send_alert_to_slack: the returned bool (or that the call raised),
   whether and how the alert went through the gate, the call of the
   notifier it made (if any) and the limiter state it leaves *)
send_alert_to_slack(alert, h, c, t, outcome) ==
    IF slack_notifier = None
    THEN [returned |-> FALSE, raised |-> FALSE, gate |-> "not submitted",
          limited |-> FALSE, notified |-> <<>>,
          alert_history |-> h, cooldown_until |-> c]
    ELSE LET g == should_send_alert(alert, h, c, t)
         IN  IF Blocked(g)
             THEN [returned |-> FALSE, raised |-> FALSE, gate |-> "denied",
                   limited |-> ~Bypasses(alert), notified |-> <<>>,
                   alert_history |-> g.alert_history,
                   cooldown_until |-> g.cooldown_until]
             ELSE [returned |-> (outcome = "sent"),
                   raised |-> (outcome = "raised" /\ ~Caught(outcome)),
                   gate |-> IF g.allowed THEN "allowed" ELSE "denied",
                   limited |-> ~Bypasses(alert),
                   notified |-> <<[channel |-> DictGet(config.channels,
                                                       alert.severity, None),
                                   mention_users |->
                                       IF alert.severity = CRITICAL
                                       THEN OptionalGet(config.mentions, CRITICAL)
                                       ELSE <<>>,
                                   outcome |-> outcome]>>,
                   alert_history |-> g.alert_history,
                   cooldown_until |-> g.cooldown_until]

(* check_data_quality over the items of `metrics` from the i-th on; acc is
   what the earlier iterations produced.  outcomes[i] is what the notifier
   would do with the alert of the i-th metric. *)
RECURSIVE check_data_quality_from(_, _, _, _, _)
check_data_quality_from(metrics, i, acc, t, outcomes) ==
    IF i > Len(metrics)
    THEN acc
    ELSE LET th == thresholds_for(metrics[i].name)
         IN  IF th.raised
             THEN [acc EXCEPT !.status = "raised", !.exception = th.exception]
             ELSE LET cl == classify(metrics[i].score, th.thresholds)
                  IN  IF cl.severity = None
                      THEN check_data_quality_from(metrics, i + 1, acc, t, outcomes)
                      ELSE LET alert == create_quality_alert(
                                            metrics[i].name, metrics[i].score,
                                            cl.threshold_value, cl.severity, t)
                               d == send_alert_to_slack(
                                            alert, acc.alert_history,
                                            acc.cooldown_until, t, outcomes[i])
                               next == [acc EXCEPT
                                           !.alerts = Append(@, alert),
                                           !.dispatch = Append(@, d),
                                           !.alert_history = d.alert_history,
                                           !.cooldown_until = d.cooldown_until]
                           IN  IF d.raised
                               THEN [next EXCEPT !.status = "raised",
                                                 !.exception = "notifier"]
                               ELSE check_data_quality_from(
                                        metrics, i + 1, next, t, outcomes)

check_data_quality(metrics, h, c, t, outcomes) ==
    check_data_quality_from(
        metrics, 1,
        [status |-> "returned", exception |-> None, alerts |-> <<>>,
         dispatch |-> <<>>, alert_history |-> h, cooldown_until |-> c],
        t, outcomes)

(* not (min_val <= current_value <= max_val) *)
OutOfRange_exclusive(current_value, expected_range) ==
    ~(expected_range[1] < current_value /\ current_value < expected_range[2])

OutOfRange(current_value, expected_range) ==
    ~(expected_range[1] <= current_value /\ current_value <= expected_range[2])

check_anomalies(metric_name, current_value, expected_range, severity, h, c, t, outcome) ==
    IF OutOfRange(current_value, expected_range)
    THEN LET alert == create_anomaly_alert(metric_name, current_value,
                                           expected_range, severity, t)
             d == send_alert_to_slack(alert, h, c, t, outcome)
         IN  [status |-> IF d.raised THEN "raised" ELSE "returned",
              alerts |-> <<alert>>, dispatch |-> <<d>>,
              alert_history |-> d.alert_history,
              cooldown_until |-> d.cooldown_until]
    ELSE [status |-> "returned", alerts |-> <<>>, dispatch |-> <<>>,
          alert_history |-> h, cooldown_until |-> c]

report_pipeline_error(pipeline_name, error_message, severity, h, c, t, outcome) ==
    LET alert == create_pipeline_alert(pipeline_name, error_message, severity, t)
        d == send_alert_to_slack(alert, h, c, t, outcome)
    IN  [status |-> IF d.raised THEN "raised" ELSE "returned",
         alerts |-> <<alert>>, dispatch |-> <<d>>,
         alert_history |-> d.alert_history,
         cooldown_until |-> d.cooldown_until]

---------------------------------------------------------------------------
(* DataQualityMetrics.  A DataFrame is the sequence of its rows.  It has a
   float64 column "age", whose cells are <<>> (NaN) or <<x>> (the number
   x), and an object column "name", whose cells are None or a str.  A float
   that the code rounds to 2 decimals is counted in hundredths: 10000 is
   100.0. *)

Columns == <<"age", "name">>

(* df.select_dtypes(include=[np.number]).columns and
   df.select_dtypes(include=['object']).columns *)
NumericColumns == <<"age">>

TextColumns == <<"name">>

(* the float nan: what numpy gives for 0 / 0.  No comparison with it holds,
   as with no percentage *)
NaN == -1

RECURSIVE Sum(_)
Sum(s) == IF s = <<>> THEN 0 ELSE Head(s) + Sum(Tail(s))

IsNull(row, col) == IF col = "age" THEN row.age = <<>> ELSE row.name = None

(* Series.count(): the non-null cells of a column *)
Count(df, col) == Cardinality({i \in 1..Len(df) : ~IsNull(df[i], col)})

(* num / den rounded to the nearest integer, a tie to the even one *)
RoundDiv(num, den) ==
    LET q == num \div den
        r == num % den
    IN  IF 2 * r < den THEN q
        ELSE IF 2 * r > den THEN q + 1
        ELSE IF q % 2 = 0 THEN q ELSE q + 1

(* round((count / n) * 100, 2), in hundredths *)
Pct(count, n) == RoundDiv(count * 10000, n)

(* df.shape[0] * df.shape[1] *)
total_cells_rows_only(df) == Len(df)

total_cells(df) == Len(df) * Len(Columns)

calculate_completeness(df) ==
    LET non_null_cells == Sum([c \in 1..Len(Columns) |-> Count(df, Columns[c])])
    IN  [overall |-> IF total_cells(df) = 0 THEN NaN
                     ELSE RoundDiv(non_null_cells * 10000, total_cells(df)),
         by_column |-> [c \in 1..Len(Columns) |->
                           IF Len(df) = 0 THEN NaN
                           ELSE Pct(Count(df, Columns[c]), Len(df))]]

(* df.duplicated(subset=cols): the rows equal, on cols, to an earlier row *)
duplicated(df, cols) ==
    {i \in 1..Len(df) :
        \E j \in 1..(i - 1) :
            \A c \in 1..Len(cols) : df[j][cols[c]] = df[i][cols[c]]}

(* Series.nunique(): the distinct non-null values of a column *)
nunique(df, col) ==
    Cardinality({df[i][col] : i \in {j \in 1..Len(df) : ~IsNull(df[j], col)}})

(* calculate_uniqueness; key_columns = <<>> stands for None and for [],
   which `if key_columns` treats alike.  A key column the frame lacks makes
   df.duplicated raise KeyError; on a frame without rows the int division
   nunique() / len(df) raises ZeroDivisionError *)
calculate_uniqueness(df, key_columns) ==
    LET cols == IF key_columns # <<>> THEN key_columns ELSE Columns
        known == {Columns[c] : c \in 1..Len(Columns)}
        failed(exception) ==
            [raised |-> TRUE, exception |-> exception, overall |-> NaN,
             duplicates_count |-> 0, by_column |-> <<>>]
    IN  IF \E c \in 1..Len(cols) : cols[c] \notin known
        THEN failed("KeyError")
        ELSE IF Len(df) = 0
        THEN failed("ZeroDivisionError")
        ELSE LET duplicates == Cardinality(duplicated(df, cols))
             IN  [raised |-> FALSE, exception |-> None,
                  overall |-> Pct(Len(df) - duplicates, Len(df)),
                  duplicates_count |-> duplicates,
                  by_column |-> [c \in 1..Len(Columns) |->
                                    Pct(nunique(df, Columns[c]), Len(df))]]

(* _get_default_validations: <col>_no_negatives for the numeric columns,
   then <col>_not_empty for the text columns *)
get_default_validations(df) == <<"age_no_negatives", "name_not_empty">>

(* rule_func(df) of a validation rule: it raises, or gives the number of
   valid rows (the sum of a boolean mask, or a scalar count).  The default
   rules, and a caller's: "adult" is the mask df['age'] >= 18,
   "named_count" the scalar df['name'].notna().sum(), and "email_format"
   reads a column the frame lacks *)
rule_func(rule, df) ==
    LET valid(S) == [raised |-> FALSE, valid_count |-> Cardinality(S)]
        rows == 1..Len(df)
    IN  CASE rule = "age_no_negatives" ->
                valid({i \in rows : df[i].age # <<>> /\ df[i].age[1] >= 0})
          [] rule = "name_not_empty" ->
                valid({i \in rows : df[i].name # None /\ df[i].name # ""})
          [] rule = "adult" ->
                valid({i \in rows : df[i].age # <<>> /\ df[i].age[1] >= 18})
          [] rule = "named_count" ->
                valid({i \in rows : df[i].name # None})
          [] rule = "email_format" ->
                [raised |-> TRUE, valid_count |-> 0]

(* the loop of calculate_validity from the i-th rule on: valid_counts holds
   the valid rows of the rules that did not raise (valid_pct is
   valid_count / len(df) * 100), by_rule the rounded percentage of every
   rule *)
RECURSIVE calculate_validity_from(_, _, _, _)
calculate_validity_from(df, rules, i, acc) ==
    IF i > Len(rules)
    THEN acc
    ELSE LET valid == rule_func(rules[i], df)
         IN  calculate_validity_from(df, rules, i + 1,
                IF valid.raised
                THEN [acc EXCEPT
                        !.by_rule = Append(@, [rule |-> rules[i], pct |-> 0])]
                ELSE [acc EXCEPT
                        !.by_rule = Append(@, [rule |-> rules[i],
                                               pct |-> Pct(valid.valid_count,
                                                           Len(df))]),
                        !.valid_counts = Append(@, valid.valid_count)])

(* calculate_validity on a frame with rows; validation_rules = <<>> stands
   for None and for {}.  overall is round(np.mean(valid_counts), 2) *)
calculate_validity(df, validation_rules) ==
    LET rules == IF validation_rules = <<>> THEN get_default_validations(df)
                 ELSE validation_rules
        r == calculate_validity_from(df, rules, 1,
                                     [valid_counts |-> <<>>, by_rule |-> <<>>])
    IN  [overall |-> IF r.valid_counts = <<>> THEN 0
                     ELSE RoundDiv(Sum(r.valid_counts) * 10000,
                                   Len(df) * Len(r.valid_counts)),
         by_rule |-> r.by_rule]

(* _check_dtype_consistency on a frame with rows, as the number of rows
   counted consistent (the result is that number / len(series) * 100): all
   of them for a numeric column; for an object column the rows of the most
   frequent cell type, str or NoneType *)
check_dtype_consistency(df, col) ==
    IF col = "age" THEN Len(df)
    ELSE LET strs == Count(df, col)
         IN  IF strs >= Len(df) - strs THEN strs ELSE Len(df) - strs

(* 4 * series.quantile(q / 4) of the sorted non-null values a, by linear
   interpolation between the two nearest ranks *)
quantile4(a, q) ==
    LET pos == q * (Len(a) - 1)
        i == pos \div 4
        r == pos % 4
    IN  IF r = 0 THEN 4 * a[i + 1]
        ELSE 4 * a[i + 1] + r * (a[i + 2] - a[i + 1])

(* _check_range_consistency on a frame with rows, as the number of rows in
   range: the non-null values between Q1 - 3 IQR and Q3 + 3 IQR; when the
   column has no value the quantiles are nan and no row is in range *)
check_range_consistency(df, col) ==
    LET cells == SelectSeq(df, LAMBDA row : ~IsNull(row, col))
        a == SortSeq([i \in 1..Len(cells) |-> cells[i][col][1]],
                     LAMBDA x, y : x < y)
    IN  IF a = <<>> THEN 0
        ELSE LET Q1 == quantile4(a, 1)
                 Q3 == quantile4(a, 3)
                 IQR == Q3 - Q1
                 lower == Q1 - 3 * IQR
                 upper == Q3 + 3 * IQR
             IN  Cardinality({i \in 1..Len(a) :
                                 lower <= 4 * a[i] /\ 4 * a[i] <= upper})

(* calculate_consistency on a frame with rows: the dtype check of every
   column, then the range check of every numeric column *)
calculate_consistency(df) ==
    LET dtype == [c \in 1..Len(Columns) |->
                     check_dtype_consistency(df, Columns[c])]
        range == [c \in 1..Len(NumericColumns) |->
                     check_range_consistency(df, NumericColumns[c])]
        consistency_checks == dtype \o range
    IN  [overall |-> RoundDiv(Sum(consistency_checks) * 10000,
                              Len(df) * Len(consistency_checks)),
         details |-> [dtype |-> [c \in 1..Len(Columns) |->
                                    Pct(dtype[c], Len(df))],
                      range |-> [c \in 1..Len(NumericColumns) |->
                                    Pct(range[c], Len(df))]]]

(* the weights of calculate_quality_score, in hundredths *)
WeightCompleteness == 30

WeightUniqueness == 25

WeightValidity == 25

WeightConsistency == 20

(* calculate_quality_score: round(score, 2) of the weighted sum of the four
   overall values.  The sum is a float: when its decimal value lies halfway
   between two hundredths, the float lies on either side and round() goes
   down (tie = 0) or up (tie = 1) *)
calculate_quality_score_unweighted(metrics, tie) ==
    RoundDiv(metrics.completeness.overall + metrics.uniqueness.overall
                + metrics.validity.overall + metrics.consistency.overall, 4)

calculate_quality_score(metrics, tie) ==
    LET score == metrics.completeness.overall * WeightCompleteness
                 + metrics.uniqueness.overall * WeightUniqueness
                 + metrics.validity.overall * WeightValidity
                 + metrics.consistency.overall * WeightConsistency
        q == score \div 100
        r == score % 100
    IN  IF r < 50 THEN q
        ELSE IF r > 50 THEN q + 1
        ELSE q + tie

(* self.metrics_history.append(quality_metrics) *)
appended_latest_only(h, quality_metrics) == <<quality_metrics>>

appended(h, quality_metrics) == Append(h, quality_metrics)

(* analyze_dataset: whether it returned or raised, the report it returned
   (<<>> when it raised) and the history it leaves *)
analyze_dataset(df, key_columns, validation_rules, h, t, tie) ==
    LET completeness == calculate_completeness(df)
        uniqueness == calculate_uniqueness(df, key_columns)
    IN  IF uniqueness.raised
        THEN [status |-> "raised", exception |-> uniqueness.exception,
              returned |-> <<>>, metrics_history |-> h]
        ELSE LET metrics_dict ==
                     [completeness |-> completeness,
                      uniqueness |-> uniqueness,
                      validity |-> calculate_validity(df, validation_rules),
                      consistency |-> calculate_consistency(df)]
                 quality_metrics ==
                     [timestamp |-> t,
                      dataset_name |-> "default",
                      total_rows |-> Len(df),
                      total_columns |-> Len(Columns),
                      completeness |-> metrics_dict.completeness.overall,
                      uniqueness |-> metrics_dict.uniqueness.overall,
                      validity |-> metrics_dict.validity.overall,
                      consistency |-> metrics_dict.consistency.overall,
                      quality_score |-> calculate_quality_score(metrics_dict, tie),
                      details |-> metrics_dict]
             IN  [status |-> "returned", exception |-> None,
                  returned |-> <<quality_metrics>>,
                  metrics_history |-> appended(h, quality_metrics)]

(* the fields of the dataclass QualityMetrics *)
QualityMetricsFields ==
    {"timestamp", "dataset_name", "total_rows", "total_columns",
     "completeness", "uniqueness", "validity", "consistency",
     "quality_score", "details"}

(* json.dump(asdict(metrics)): the object of the report, in which the dict
   `details` and the four dicts it holds are objects in turn *)
json_dump_metrics(metrics) ==
    json_object([metrics EXCEPT
        !.details = json_object([k \in DOMAIN metrics.details |->
                                    json_object(metrics.details[k])])])

(* json_dump_metrics without the nested dict *)
json_dump_metrics_summary(metrics) ==
    json_object([k \in QualityMetricsFields \ {"details"} |-> metrics[k]])

(* json.load of one object of the file: the dict the QualityMetrics constructor gets *)
json_load_metrics(o) ==
    LET m == json_dict(o)
    IN  IF "details" \notin DOMAIN m THEN m
        ELSE [m EXCEPT
                !.details = LET d == json_dict(m.details)
                            IN  [k \in DOMAIN d |-> json_dict(d[k])]]

(* save_metrics: the file it leaves; json.dump of asdict(metrics) writes one
   object.  When open() fails the exception is caught and the file is as
   it was *)
save_metrics_without_details(metrics, file, opened) ==
    IF opened THEN [kind |-> "dict", data |-> json_dump_metrics_summary(metrics)]
    ELSE file

save_metrics(metrics, file, opened) ==
    IF opened THEN [kind |-> "dict", data |-> json_dump_metrics(metrics)]
    ELSE file

(* load_metrics_history: the history it leaves.  A file holding a list
   replaces the history by the reports of the list, a file holding one
   object by that one report.  Without a file open() raises, and with an
   object that lacks a field or has another the QualityMetrics constructor
   raises; the exception is caught and the history is as it was *)
load_metrics_history(file, h) ==
    IF file.kind = "missing" THEN h
    ELSE LET docs == IF file.kind = "list" THEN file.data ELSE <<file.data>>
             loaded == [i \in 1..Len(docs) |-> json_load_metrics(docs[i])]
         IN  IF \A i \in 1..Len(docs) : DOMAIN loaded[i] = QualityMetricsFields
             THEN loaded
             ELSE h

---------------------------------------------------------------------------
(* DetectorAnomalias (src/src/core/detector_anomalias.py) *)

(* A frame handed to the detector is [rows, columns]: the number of its rows
   and its numeric columns (select_dtypes(include=[np.number])), a dict from
   the column name to the sequence of the column's values; the other columns
   take no part.  Row i of the model is the row of index i - 1. *)

(* the elements of a set of integers as a list in ascending order *)
RECURSIVE AsList(_)
AsList(S) ==
    IF S = {} THEN <<>>
    ELSE LET m == CHOOSE x \in S : \A y \in S : x <= y
         IN  <<m>> \o AsList(S \ {m})

SumSq(v) == Sum([i \in 1..Len(v) |-> v[i] * v[i]])

(* n^2 (n - 1) times the sample variance (ddof = 1) of the column v *)
Spread(v) == Len(v) * SumSq(v) - Sum(v) * Sum(v)

(* df[col].std() == 0; the std of fewer than two values is nan, which
   equals nothing *)
std_is_zero(v) == Len(v) >= 2 /\ Spread(v) = 0

(* abs((v[i] - mean) / std) > threshold for an integer threshold, compared
   after squaring and clearing the denominators; with a nan std (fewer than
   two values) or a zero deviation over a zero std the comparison is False *)
zscore_exceeds_default_threshold(v, i, threshold) ==
    /\ Len(v) >= 2
    /\ (Len(v) * v[i] - Sum(v)) * (Len(v) * v[i] - Sum(v)) * (Len(v) - 1)
         > 9 * Len(v) * Spread(v)

zscore_exceeds(v, i, threshold) ==
    /\ Len(v) >= 2
    /\ (Len(v) * v[i] - Sum(v)) * (Len(v) * v[i] - Sum(v)) * (Len(v) - 1)
         > threshold * threshold * Len(v) * Spread(v)

(* detect_zscore(df, threshold): the rows it returns *)
detect_zscore(df, threshold) ==
    {i \in 1..df.rows :
        \E col \in DOMAIN df.columns :
            /\ ~std_is_zero(df.columns[col])
            /\ zscore_exceeds(df.columns[col], i, threshold)}

(* detect_iqr(df, multiplier) for multiplier = multiplier2 / 2: the rows
   outside [Q1 - multiplier IQR, Q3 + multiplier IQR], everything scaled
   by 8; the quantiles of a column without values are nan and flag nothing *)
detect_iqr(df, multiplier2) ==
    {i \in 1..df.rows :
        \E col \in DOMAIN df.columns :
            LET v == df.columns[col]
                a == SortSeq(v, LAMBDA x, y : x < y)
                Q1 == quantile4(a, 1)
                Q3 == quantile4(a, 3)
                IQR == Q3 - Q1
                lower_bound == 2 * Q1 - multiplier2 * IQR
                upper_bound == 2 * Q3 + multiplier2 * IQR
            IN  8 * v[i] < lower_bound \/ 8 * v[i] > upper_bound}

(* detect_isolation_forest(df): no row without numeric columns; otherwise
   the rows the fitted IsolationForest predicts as -1, which the model takes
   as given (forest) *)
detect_isolation_forest(df, forest) ==
    IF DOMAIN df.columns = {} THEN {} ELSE forest

(* _count_by_column: the counter after the call; every numeric column gets
   the number of rows the method flagged *)
count_by_column(df, anomaly_indices, counter, method) ==
    LET keys == {col \o "_" \o method : col \in DOMAIN df.columns}
    IN  [key \in DOMAIN counter \cup keys |->
            IF key \in keys
            THEN DictGet(counter, key, 0) + Cardinality(anomaly_indices)
            ELSE counter[key]]

(* the number of numeric columns in which row idx has
   abs((value - mean) / (std + 1e-10)) > 3 *)
affected_cols(df, idx) ==
    Cardinality({col \in DOMAIN df.columns :
                    zscore_exceeds(df.columns[col], idx, 3)})

(* the class _calculate_severity gives a row: affected_cols >= 0.5 and
   >= 0.2 times len(numeric_cols), tested in that order *)
severity_class(df, idx) ==
    IF 2 * affected_cols(df, idx) >= Cardinality(DOMAIN df.columns)
    THEN "high"
    ELSE IF 5 * affected_cols(df, idx) >= Cardinality(DOMAIN df.columns)
    THEN "medium"
    ELSE "low"

(* _calculate_severity(df, anomaly_indices) *)
calculate_severity(df, anomaly_indices) ==
    [class \in {"low", "medium", "high"} |->
        Cardinality({idx \in anomaly_indices : severity_class(df, idx) = class})]

AllMethods == <<"zscore", "iqr", "isolation_forest">>

(* the union of what the methods flagged *)
all_indices_consensus(found) ==
    {i \in UNION {found[m] : m \in DOMAIN found} :
        \A m \in DOMAIN found : i \in found[m]}

all_indices(found) == UNION {found[m] : m \in DOMAIN found}

(* detect_all(df, methods): methods is <<>> for None and <<list>> for a
   list.  Without rows the call raises: the ValueError of the scaler inside
   detect_isolation_forest when that method runs on numeric columns, else
   the ZeroDivisionError of total_anomalies / len(df). *)
detect_all(df, methods, forest, h, t) ==
    LET used == IF methods = <<>> THEN AllMethods ELSE methods[1]
        Has(m) == \E i \in 1..Len(used) : used[i] = m
        found == [m \in {o \in {"zscore", "iqr", "isolation_forest"} : Has(o)} |->
                     IF m = "zscore" THEN detect_zscore(df, 3)
                     ELSE IF m = "iqr" THEN detect_iqr(df, 3)
                     ELSE detect_isolation_forest(df, forest)]
        by_zscore == IF Has("zscore")
                     THEN count_by_column(df, found["zscore"], EmptyDict, "zscore")
                     ELSE EmptyDict
        by_column == IF Has("iqr")
                     THEN count_by_column(df, found["iqr"], by_zscore, "iqr")
                     ELSE by_zscore
        all_anomaly_indices == all_indices(found)
        total_anomalies == Cardinality(all_anomaly_indices)
    IN  IF df.rows = 0
        THEN [status |-> "raised",
              exception |-> IF Has("isolation_forest") /\ DOMAIN df.columns # {}
                            THEN "ValueError" ELSE "ZeroDivisionError",
              returned |-> <<>>, anomaly_history |-> h]
        ELSE LET report ==
                     [timestamp |-> t,
                      dataset_name |-> "default",
                      total_rows |-> df.rows,
                      total_anomalies |-> total_anomalies,
                      anomaly_percentage |-> Pct(total_anomalies, df.rows),
                      methods_used |-> used,
                      anomalies_by_method |->
                          [m \in DOMAIN found |-> Cardinality(found[m])],
                      anomalies_by_column |-> by_column,
                      details |->
                          [indices_anomalias |-> AsList(all_anomaly_indices),
                           distribuicao_severity |->
                               calculate_severity(df, all_anomaly_indices)]]
             IN  [status |-> "returned", exception |-> None,
                  returned |-> <<report>>,
                  anomaly_history |-> Append(h, report)]

(* json.dump(asdict(report)): the object of the report, in which the dicts
   it holds are objects in turn and the list of indices is an array *)
json_dump_report(report) ==
    json_object([report EXCEPT
        !.anomalies_by_method = json_object(@),
        !.anomalies_by_column = json_object(@),
        !.details = json_object([@ EXCEPT
                        !.distribuicao_severity = json_object(@)])])

(* json.load of a document save_report wrote *)
json_load_report(o) ==
    LET r == json_dict(o)
        load_details(d) ==
            [k \in DOMAIN d |-> IF k = "indices_anomalias" THEN d[k]
                                ELSE json_dict(d[k])]
    IN  [k \in DOMAIN r |->
            IF k \in {"anomalies_by_method", "anomalies_by_column"}
            THEN json_dict(r[k])
            ELSE IF k = "details" THEN load_details(json_dict(r[k]))
            ELSE r[k]]

(* save_report: the file it leaves; when open() fails the exception is
   caught and the file is as it was *)
save_report(report, file, opened) ==
    IF opened THEN [kind |-> "dict", data |-> json_dump_report(report)]
    ELSE file

(* the readers of a report in the repository and the keys of
   report.details each of them subscripts: print_report, the __main__ block
   of detector_anomalias.py and the task detectar_anomalias of the DAG
   (which calls print_report first) *)
Readers == {"print_report", "__main__", "detectar_anomalias"}

keys_read(reader) ==
    IF reader = "__main__" THEN {"severity_distribution", "anomaly_indices"}
    ELSE {"severity_distribution"}

(* what a reader does with a report: subscripting details with a key it
   does not hold raises KeyError *)
read_report(reader, report) ==
    IF keys_read(reader) \subseteq DOMAIN report.details
    THEN [status |-> "returned", exception |-> None]
    ELSE [status |-> "raised", exception |-> "KeyError"]

---------------------------------------------------------------------------
(* ConfigManager (src/config/config_manager.py) and Config
   (src/config/config_schema.py).  Fractions and the anomaly threshold are
   hundredths. *)

(* yaml.dump of a dict of dicts writes a mapping of mappings, and
   yaml.safe_load reads one back *)
yaml_dump(config_dict) ==
    json_object([section \in DOMAIN config_dict |->
                    json_object(config_dict[section])])

yaml_safe_load(document) ==
    LET d == json_dict(document)
    IN  [section \in DOMAIN d |-> json_dict(d[section])]

(* the Field defaults of SlackConfig, QualityConfig and MonitoringConfig *)
SlackDefaults == [channel |-> "#Alertas", enabled |-> TRUE]

QualityDefaults ==
    [min_completeness |-> 95, min_uniqueness |-> 90, anomaly_threshold |-> 300]

MonitoringDefaults == [check_interval_minutes |-> 30]

DataSourceDefaults == [path |-> None]

(* the fields of a section model: the given ones over the defaults; a key
   that is no field of the model is ignored *)
WithDefaults(given, defaults, fields) ==
    [f \in (DOMAIN given \cup DOMAIN defaults) \cap fields |->
        IF f \in DOMAIN given THEN given[f] ELSE defaults[f]]

(* The Config constructor over config_data: the three sections are
   required, and so are slack.webhook_url and monitoring.data_sources;
   min_completeness and
   min_uniqueness lie in [0, 1], anomaly_threshold and
   check_interval_minutes are positive, a data source has a name and a
   type, which is database or csv.  Anything else raises ValidationError. *)
Config(config_data) ==
    IF ~({"slack", "quality", "monitoring"} \subseteq DOMAIN config_data)
    THEN [raised |-> TRUE, exception |-> "ValidationError", config |-> <<>>]
    ELSE LET slack == WithDefaults(config_data.slack, SlackDefaults,
                                   {"webhook_url", "channel", "enabled"})
             quality == WithDefaults(config_data.quality, QualityDefaults,
                                     {"min_completeness", "min_uniqueness",
                                      "anomaly_threshold"})
             given == WithDefaults(config_data.monitoring,
                                   MonitoringDefaults,
                                   {"check_interval_minutes", "data_sources"})
             sources == IF "data_sources" \in DOMAIN given
                        THEN [i \in 1..Len(given.data_sources) |->
                                 WithDefaults(given.data_sources[i],
                                              DataSourceDefaults,
                                              {"name", "type", "path"})]
                        ELSE <<>>
             monitoring == IF "data_sources" \in DOMAIN given
                           THEN [given EXCEPT !.data_sources = sources]
                           ELSE given
         IN  IF /\ "webhook_url" \in DOMAIN slack
                /\ "data_sources" \in DOMAIN monitoring
                /\ quality.min_completeness >= 0
                /\ quality.min_completeness <= 100
                /\ quality.min_uniqueness >= 0
                /\ quality.min_uniqueness <= 100
                /\ quality.anomaly_threshold > 0
                /\ monitoring.check_interval_minutes > 0
                /\ \A i \in 1..Len(sources) :
                      /\ {"name", "type"} \subseteq DOMAIN sources[i]
                      /\ sources[i].type \in {"database", "csv"}
             THEN [raised |-> FALSE, exception |-> None,
                   config |-> <<[slack |-> slack, quality |-> quality,
                                 monitoring |-> monitoring]>>]
             ELSE [raised |-> TRUE, exception |-> "ValidationError",
                   config |-> <<>>]

(* ConfigManager.load: what it returns or raises, and the cache it leaves *)
load(file, cache) ==
    IF file.kind = "missing"
    THEN [status |-> "raised", exception |-> "FileNotFoundError",
          returned |-> <<>>, cache |-> cache]
    ELSE LET c == Config(yaml_safe_load(file.data))
         IN  IF c.raised
             THEN [status |-> "raised", exception |-> c.exception,
                   returned |-> <<>>, cache |-> cache]
             ELSE [status |-> "returned", exception |-> None,
                   returned |-> c.config, cache |-> c.config]

(* self._config is None *)
nothing_cached_ever(cache) == TRUE

nothing_cached(cache) == cache = <<>>

(* ConfigManager.get *)
get(file, cache) ==
    IF nothing_cached(cache)
    THEN load(file, cache)
    ELSE [status |-> "returned", exception |-> None,
          returned |-> cache, cache |-> cache]

(* ConfigManager.save(config): the file and the cache it leaves; when
   open() fails the exception propagates and both are as they were *)
save(new_config, file, cache, opened) ==
    IF opened
    THEN [status |-> "returned", exception |-> None,
          file |-> [kind |-> "yaml", data |-> yaml_dump(new_config)],
          cache |-> <<new_config>>]
    ELSE [status |-> "raised", exception |-> "OSError",
          file |-> file, cache |-> cache]

(* ConfigManager.reload *)
reload(file, cache) == load(file, <<>>)

---------------------------------------------------------------------------
(* Inputs of the operations *)

(* a metrics dict, as the sequence of its items in insertion order: the
   dicts of one and of two metrics over the given names and scores *)
MetricsOver(names, scores) ==
    {m \in [{1} -> [name : names, score : scores]]
           \cup [{1, 2} -> [name : names, score : scores]] :
        \A i, j \in DOMAIN m : i # j => m[i].name # m[j].name}

(* "completeness" and "uniqueness" are configured by the default config,
   "row_count" by no config; the scores lie on, just below and between the
   thresholds of the configs *)
QualityMetrics ==
    MetricsOver({"completeness", "uniqueness", "row_count"},
                {79, 80, 89, 90, 94, 95, 98})

(* the metrics of the dispatch specification: 85 is an ERROR for
   completeness and CRITICAL for uniqueness under the default config, 99
   passes *)
DispatchMetrics == MetricsOver({"completeness", "uniqueness"}, {85, 99})

(* (min, max), and values below, on, inside and above the range *)
ExpectedRange == <<10000, 15000>>

AnomalyValues == {5000, 10000, 12000, 15000, 15001}

(* alerts a client hands to should_send_alert: alerts that share a key and
   differ in severity, value, message, title or metric_name (None and ""
   fall back to the title), and alerts of another key *)
SampleNames == {"quality warning", "quality error", "quality critical",
                "manual info", "pipeline warning", "pipeline critical",
                "pipeline retry"}

SampleAlert(name, t) ==
    CASE name = "quality warning" ->
            create_quality_alert("completeness", 85, 95, WARNING, t)
      [] name = "quality error" ->
            create_quality_alert("completeness", 89, 90, ERROR, t)
      [] name = "quality critical" ->
            create_quality_alert("completeness", 70, 80, CRITICAL, t)
      [] name = "manual info" ->
            Alert(INFO, "completeness", "manual check", "data_quality", None,
                  <<>>, <<>>, EmptyDict, t)
      [] name = "pipeline warning" ->
            create_pipeline_alert("daily_ingestion", "Connection timeout",
                                  WARNING, t)
      [] name = "pipeline critical" ->
            create_pipeline_alert("daily_ingestion", "Connection timeout",
                                  CRITICAL, t)
      [] name = "pipeline retry" ->
            Alert(ERROR, "Erro no pipeline: daily_ingestion", "retry failed",
                  "pipeline", "", <<>>, <<>>, EmptyDict, t)

(* the rows a frame is made of (a missing, a negative and a plain age; a
   missing, an empty and a plain name), and the frames of up to MaxRows
   rows, the one without rows included *)
RowValues ==
    [age : {<<>>, <<-5>>, <<30>>}, name : {None, "Bob"}]
        \cup {[age |-> <<30>>, name |-> ""]}

DataFrames == UNION {[1..n -> RowValues] : n \in 0..MaxRows}

(* validation_rules: None (<<>>), or the rules of a caller in the order of
   the dict *)
RuleSets == {<<>>, <<"adult">>, <<"email_format">>,
             <<"adult", "email_format">>, <<"named_count", "adult">>}

(* frames of the engine in use: without rows, clean, and with a null and a
   duplicate *)
SampleFrames ==
    {<<>>,
     <<[age |-> <<30>>, name |-> "Bob"]>>,
     <<[age |-> <<30>>, name |-> "Bob"], [age |-> <<>>, name |-> "Bob"],
       [age |-> <<30>>, name |-> "Bob"]>>}

(* the file of an earlier run: a list of two reports *)
ArchiveFile ==
    LET reports == analyze_dataset(
                     <<[age |-> <<-5>>, name |-> None]>>, <<>>, <<>>,
                     analyze_dataset(<<[age |-> <<30>>, name |-> ""]>>, <<>>, <<>>,
                                     <<>>, 0, 0).metrics_history,
                     0, 0).metrics_history
    IN  [kind |-> "list",
         data |-> [i \in 1..Len(reports) |-> json_dump_metrics(reports[i])]]

---------------------------------------------------------------------------
(* Helpers of the history variables *)

RECURSIVE SumLen(_, _)
SumLen(f, S) ==
    IF S = {} THEN 0
    ELSE LET k == CHOOSE x \in S : TRUE
         IN  Len(f[k]) + SumLen(f, S \ {k})

TotalCalls == SumLen(calls, DOMAIN calls)

(* the call log after one more can_send_alert(k) call *)
Logged(log, k, t, allowed) ==
    DictPut(log, k, Append(DictGet(log, k, <<>>), [t |-> t, allowed |-> allowed]))

(* the call log after the dispatches of one operation *)
RECURSIVE LoggedAll(_, _, _, _, _)
LoggedAll(log, produced, dispatch, i, t) ==
    IF i > Len(produced) THEN log
    ELSE LoggedAll(IF dispatch[i].limited
                   THEN Logged(log, alert_key(produced[i]), t,
                               dispatch[i].gate = "allowed")
                   ELSE log,
                   produced, dispatch, i + 1, t)

---------------------------------------------------------------------------
(* State machine *)

(* no detector has run and nothing was saved: DetectorAnomalias.__init__ *)
NoDetector ==
    /\ anomaly_history = <<>>
    /\ report_file = NoFile

(* a manager that has loaded nothing, beside no file: ConfigManager.__init__ *)
NoConfigManager ==
    /\ config_yaml = NoFile
    /\ cached_config = <<>>
    /\ established = <<>>

(* a limiter on its own: AlertRateLimiter(max_alerts_per_hour, cooldown_minutes) *)
InitLimiter ==
    /\ now = 0
    /\ config = None
    /\ slack_notifier = None
    /\ rate_limiter = "AlertRateLimiter"
    /\ max_alerts_per_hour \in 1..MaxAlerts
    /\ cooldown_minutes \in Cooldowns
    /\ alert_history = EmptyDict
    /\ cooldown_until = EmptyDict
    /\ calls = EmptyDict
    /\ alerts = <<>>
    /\ metrics_history = <<>>
    /\ metrics_file = NoFile
    /\ NoDetector
    /\ NoConfigManager
    /\ last = [op |-> "init"]

(* a manager on its own: AlertManager(enable_rate_limiting); its limiter is
   AlertRateLimiter() with the default cooldown, and the caps tried are
   smaller than the default so that the cap is reached within the bounds *)
InitManager ==
    /\ now = 0
    /\ config = None
    /\ slack_notifier = None
    /\ rate_limiter \in {"AlertRateLimiter", None}
    /\ IF rate_limiter = None
       THEN max_alerts_per_hour = None /\ cooldown_minutes = None
       ELSE max_alerts_per_hour \in 1..MaxAlerts
            /\ cooldown_minutes = DefaultCooldownMinutes
    /\ alert_history = EmptyDict
    /\ cooldown_until = EmptyDict
    /\ calls = EmptyDict
    /\ alerts = <<>>
    /\ metrics_history = <<>>
    /\ metrics_file = NoFile
    /\ NoDetector
    /\ NoConfigManager
    /\ last = [op |-> "init"]

(* AlertingSystem(enable_slack, enable_rate_limiting, config): `config or
   default`; the notifier is None when Slack is disabled or SlackNotifier()
   raised; the manager is as above *)
Init ==
    /\ now = 0
    /\ config \in Configs
    /\ slack_notifier \in {"SlackNotifier", None}
    /\ rate_limiter \in {"AlertRateLimiter", None}
    /\ IF rate_limiter = None
       THEN max_alerts_per_hour = None /\ cooldown_minutes = None
       ELSE max_alerts_per_hour \in 1..MaxAlerts
            /\ cooldown_minutes = DefaultCooldownMinutes
    /\ alert_history = EmptyDict
    /\ cooldown_until = EmptyDict
    /\ calls = EmptyDict
    /\ alerts = <<>>
    /\ metrics_history = <<>>
    /\ metrics_file = NoFile
    /\ NoDetector
    /\ NoConfigManager
    /\ last = [op |-> "init"]

(* time passes between two operations *)
Tick(steps) ==
    /\ \E d \in steps :
          /\ now + d <= MaxClock
          /\ now' = now + d
    /\ UNCHANGED <<engine_vars, detector_vars, settings_vars>>
    /\ UNCHANGED <<alerts, config, slack_notifier, rate_limiter,
                   max_alerts_per_hour,
                   cooldown_minutes, alert_history, cooldown_until, calls, last>>

(* a client calls AlertRateLimiter.can_send_alert(k) *)
CallCanSendAlert(keys) ==
    /\ TotalCalls < MaxCalls
    /\ \E k \in keys :
          LET r == can_send_alert(alert_history, cooldown_until, k, now)
          IN  /\ alert_history' = r.alert_history
              /\ cooldown_until' = r.cooldown_until
              /\ calls' = Logged(calls, k, now, r.allowed)
              /\ last' = [op |-> "can_send_alert", key |-> k,
                          in_cooldown |-> k \in DOMAIN cooldown_until,
                          allowed |-> r.allowed, reason |-> r.reason]
    /\ UNCHANGED <<engine_vars, detector_vars, settings_vars>>
    /\ UNCHANGED <<now, alerts, config, slack_notifier, rate_limiter,
                   max_alerts_per_hour, cooldown_minutes>>

(* a client calls AlertRateLimiter.get_stats(k) *)
CallGetStats(keys) ==
    /\ \E k \in keys :
          LET r == get_stats(alert_history, cooldown_until, k, now)
          IN  /\ alert_history' = r.alert_history
              /\ last' = [op |-> "get_stats", key |-> k, stats |-> r.stats]
    /\ UNCHANGED <<engine_vars, detector_vars, settings_vars>>
    /\ UNCHANGED <<now, alerts, config, slack_notifier, rate_limiter,
                   max_alerts_per_hour, cooldown_minutes, cooldown_until, calls>>

(* a client calls AlertManager.should_send_alert(alert) *)
ShouldSendAlert ==
    /\ \E name \in SampleNames :
          LET alert == SampleAlert(name, now)
              r == should_send_alert(alert, alert_history, cooldown_until, now)
          IN  /\ Bypasses(alert) \/ TotalCalls < MaxCalls
              /\ alert_history' = r.alert_history
              /\ cooldown_until' = r.cooldown_until
              /\ calls' = IF Bypasses(alert) THEN calls
                          ELSE Logged(calls, alert_key(alert), now, r.allowed)
              /\ last' = [op |-> "should_send_alert", alert |-> alert,
                          allowed |-> r.allowed, reason |-> r.reason]
    /\ UNCHANGED <<engine_vars, detector_vars, settings_vars>>
    /\ UNCHANGED <<now, alerts, config, slack_notifier, rate_limiter,
                   max_alerts_per_hour, cooldown_minutes>>

(* the common end of the three operations of AlertingSystem: r is what the
   operation computed *)
Completes(op, input, r) ==
    /\ alert_history' = r.alert_history
    /\ cooldown_until' = r.cooldown_until
    /\ calls' = LoggedAll(calls, r.alerts, r.dispatch, 1, now)
    /\ SumLen(calls', DOMAIN calls') <= MaxCalls
    /\ last' = [op |-> op, input |-> input, status |-> r.status,
                alerts |-> r.alerts, dispatch |-> r.dispatch]
    /\ UNCHANGED <<engine_vars, detector_vars, settings_vars>>
    /\ UNCHANGED <<now, alerts, config, slack_notifier, rate_limiter,
                   max_alerts_per_hour, cooldown_minutes>>

(* AlertingSystem.check_data_quality(metrics) *)
CheckDataQuality(inputs) ==
    \E metrics \in inputs : \E outcomes \in [DOMAIN metrics -> Outcomes] :
        Completes("check_data_quality", metrics,
                  check_data_quality(metrics, alert_history, cooldown_until,
                                     now, outcomes))

(* AlertingSystem.check_anomalies(metric_name, current_value, expected_range,
   severity) *)
CheckAnomalies(values) ==
    \E v \in values : \E severity \in {ERROR, CRITICAL} :
    \E outcome \in Outcomes :
        Completes("check_anomalies",
                  [metric_name |-> "row_count", current_value |-> v,
                   expected_range |-> ExpectedRange, severity |-> severity],
                  check_anomalies("row_count", v, ExpectedRange, severity,
                                  alert_history, cooldown_until, now, outcome))

(* AlertingSystem.report_pipeline_error(pipeline_name, error_message, severity) *)
ReportPipelineError ==
    \E severity \in {CRITICAL, WARNING} : \E outcome \in Outcomes :
        Completes("report_pipeline_error",
                  [pipeline_name |-> "daily_ingestion",
                   error_message |-> "Connection timeout",
                   severity |-> severity],
                  report_pipeline_error("daily_ingestion", "Connection timeout",
                                        severity, alert_history, cooldown_until,
                                        now, outcome))

(* the rate limiter on its own, driven by a client *)
NextLimiter ==
    \/ Tick(Steps)
    \/ CallCanSendAlert({"data_quality:completeness", "anomaly_detector:row_count"})
    \/ CallGetStats({"data_quality:completeness", "anomaly_detector:row_count"})

SpecLimiter == InitLimiter /\ [][NextLimiter]_vars

(* the alert manager on its own, driven by a client *)
NextManager ==
    \/ Tick(CoarseSteps)
    \/ ShouldSendAlert

SpecManager == InitManager /\ [][NextManager]_vars

(* the alerting system: any sequence of its three operations *)
Next ==
    \/ CheckDataQuality(DispatchMetrics)
    \/ CheckAnomalies({5000, 12000})
    \/ ReportPipelineError

Spec == Init /\ [][Next]_vars

(* a client calls alert_manager.create_alert(severity, title, message, source) *)
CreateAlert ==
    /\ Len(alerts) < MaxHistory
    /\ \E severity \in {INFO, ERROR} :
          LET r == create_alert(alerts, severity, "Manual check",
                                "operator note", "manual", now)
          IN  /\ alerts' = r.alerts
              /\ last' = [op |-> "create_alert", alert |-> r.alert]
    /\ UNCHANGED <<engine_vars, detector_vars, settings_vars>>
    /\ UNCHANGED <<now, config, slack_notifier, rate_limiter,
                   max_alerts_per_hour, cooldown_minutes, alert_history,
                   cooldown_until, calls>>

(* a client calls alert_manager.clear_old_alerts(days) *)
ClearOldAlerts ==
    /\ \E days \in {0, 7} :
          /\ alerts' = clear_old_alerts(alerts, days, now)
          /\ last' = [op |-> "clear_old_alerts", days |-> days]
    /\ UNCHANGED <<engine_vars, detector_vars, settings_vars>>
    /\ UNCHANGED <<now, config, slack_notifier, rate_limiter,
                   max_alerts_per_hour, cooldown_minutes, alert_history,
                   cooldown_until, calls>>

(* the alerting system and the clients of its alert manager *)
NextHistory ==
    \/ CheckDataQuality(DispatchMetrics)
    \/ CheckAnomalies({5000, 12000})
    \/ ReportPipelineError
    \/ CreateAlert
    \/ ClearOldAlerts

SpecHistory == Init /\ [][NextHistory]_vars

(* the first operation of a newly constructed alerting system, over the
   whole range of metrics and values *)
FirstCheckDataQuality ==
    /\ last.op = "init"
    /\ CheckDataQuality(QualityMetrics)

FirstCheckAnomalies ==
    /\ last.op = "init"
    /\ CheckAnomalies(AnomalyValues)

NextQuality == FirstCheckDataQuality \/ FirstCheckAnomalies

SpecQuality == Init /\ [][NextQuality]_vars

(* the engine on its own: DataQualityMetrics(), next to an alerting system
   nobody uses.  The JSON file is absent, or holds the list of reports an
   earlier run exported *)
InitEngine ==
    /\ now = 0
    /\ config = DefaultConfig
    /\ slack_notifier = None
    /\ rate_limiter = None
    /\ max_alerts_per_hour = None
    /\ cooldown_minutes = None
    /\ alert_history = EmptyDict
    /\ cooldown_until = EmptyDict
    /\ alerts = <<>>
    /\ calls = EmptyDict
    /\ metrics_history = <<>>
    /\ metrics_file \in {NoFile, ArchiveFile}
    /\ NoDetector
    /\ NoConfigManager
    /\ last = [op |-> "init"]

(* analyze_dataset(df, key_columns, validation_rules) *)
AnalyzeDataset(frames, keys, rulesets) ==
    /\ Len(metrics_history) < MaxReports
    /\ \E df \in frames : \E key_columns \in keys :
       \E validation_rules \in rulesets : \E tie \in {0, 1} :
          LET r == analyze_dataset(df, key_columns, validation_rules,
                                   metrics_history, now, tie)
          IN  /\ metrics_history' = r.metrics_history
              /\ last' = [op |-> "analyze_dataset",
                          input |-> [df |-> df, key_columns |-> key_columns,
                                     validation_rules |-> validation_rules],
                          status |-> r.status, exception |-> r.exception,
                          returned |-> r.returned]
    /\ UNCHANGED <<now, metrics_file>>
    /\ UNCHANGED <<alerting_vars, detector_vars, settings_vars>>

(* calculate_completeness(df) *)
CalculateCompleteness(frames) ==
    /\ \E df \in frames :
          last' = [op |-> "calculate_completeness", input |-> [df |-> df],
                   status |-> "returned",
                   returned |-> <<calculate_completeness(df)>>]
    /\ UNCHANGED <<now, metrics_history, metrics_file>>
    /\ UNCHANGED <<alerting_vars, detector_vars, settings_vars>>

(* save_metrics(metrics, filepath), of a report of the history *)
SaveMetrics ==
    /\ \E i \in 1..Len(metrics_history) : \E opened \in BOOLEAN :
          /\ metrics_file' = save_metrics(metrics_history[i], metrics_file, opened)
          /\ last' = [op |-> "save_metrics", input |-> i, opened |-> opened]
    /\ UNCHANGED <<now, metrics_history>>
    /\ UNCHANGED <<alerting_vars, detector_vars, settings_vars>>

(* load_metrics_history(filepath) *)
LoadMetricsHistory ==
    /\ metrics_history' = load_metrics_history(metrics_file, metrics_history)
    /\ last' = [op |-> "load_metrics_history", file |-> metrics_file]
    /\ UNCHANGED <<now, metrics_file>>
    /\ UNCHANGED <<alerting_vars, detector_vars, settings_vars>>

(* the first call on a new engine, over every frame of up to MaxRows rows *)
FirstAnalyzeDataset ==
    /\ last.op = "init"
    /\ AnalyzeDataset(DataFrames, {<<>>, <<"name">>}, RuleSets)

FirstCalculateCompleteness ==
    /\ last.op = "init"
    /\ CalculateCompleteness(DataFrames)

NextMetrics == FirstAnalyzeDataset \/ FirstCalculateCompleteness

SpecMetrics == InitEngine /\ [][NextMetrics]_vars

(* an engine in use: analyses, exports and imports in any order *)
NextEngine ==
    \/ AnalyzeDataset(SampleFrames, {<<>>, <<"id">>}, {<<>>})
    \/ SaveMetrics
    \/ LoadMetricsHistory

SpecEngine == InitEngine /\ [][NextEngine]_vars

---------------------------------------------------------------------------
(* The anomaly detector: inputs, operations and specifications *)

(* names of numeric columns: those of the sample of detector_anomalias.py
   and of the test fixtures *)
ColumnNames == <<"age", "salary", "score", "value", "amount">>

(* the shapes of a column of n values: all equal; one value far above the
   others; two values far above the others, placed as in the fixture
   dataframe_with_outliers ([10] * 20 + [100, 105] + [10] * 8 for n = 30);
   all different and evenly spaced *)
Patterns == <<"flat", "spike", "pair", "ramp">>

PairAt(n) == IF n > 9 THEN n - 9 ELSE 1

Column(pattern, n) ==
    [i \in 1..n |->
        IF pattern = "spike" THEN (IF i = 1 THEN 100 ELSE 10)
        ELSE IF pattern = "pair"
        THEN (IF i = PairAt(n) THEN 100
              ELSE IF i = PairAt(n) + 1 THEN 105 ELSE 10)
        ELSE IF pattern = "ramp" THEN 10 + i
        ELSE 10]

(* the frame of n rows whose c-th numeric column has the shape shape[c] *)
Frame(n, shape) ==
    [rows |-> n,
     columns |-> [name \in {ColumnNames[c] : c \in 1..Len(shape)} |->
                    Column(shape[CHOOSE c \in 1..Len(shape) :
                                     ColumnNames[c] = name], n)]]

(* no row, one row (the std is nan), few rows, and enough rows for a
   z-score above 3 *)
RowCounts == {0, 1, 4, 12}

(* the shapes of up to MaxColumns columns; no operation depends on the
   order of the columns, so each combination of shapes is taken in one
   order *)
Shapes ==
    UNION {{[c \in 1..k |-> Patterns[s[c]]] :
               s \in {t \in [1..k -> 1..Len(Patterns)] :
                         \A c \in 1..(k - 1) : t[c] <= t[c + 1]}} :
           k \in 0..MaxColumns}

DetectorFrames == {Frame(n, shape) : n \in RowCounts, shape \in Shapes}

(* the fixture dataframe_with_outliers of tests/conftest.py *)
OutlierFixture == [rows |-> 30, columns |-> [name \in {"value"} |-> Column("pair", 30)]]

(* the methods argument: None, and lists of method names *)
MethodChoices ==
    {<<>>, <<<<>>>>, <<<<"zscore">>>>, <<<<"iqr">>>>, <<<<"zscore", "iqr">>>>,
     <<<<"isolation_forest">>>>, <<<<"iqr", "isolation_forest">>>>}

(* sets of rows: none, the first, the last, the first two, all *)
RowSets(df) ==
    {{}, {1} \cap (1..df.rows), {df.rows} \cap (1..df.rows),
     {1, 2} \cap (1..df.rows), 1..df.rows}

(* what the fitted forest may predict as outliers, when it is run *)
ForestChoices(df, methods) ==
    IF /\ \E i \in 1..Len(IF methods = <<>> THEN AllMethods ELSE methods[1]) :
             (IF methods = <<>> THEN AllMethods ELSE methods[1])[i]
                 = "isolation_forest"
       /\ DOMAIN df.columns # {}
    THEN RowSets(df) \ {1..df.rows}
    ELSE {{}}

(* a new detector beside a new engine *)
InitDetector ==
    /\ InitEngine
    /\ metrics_file = NoFile

(* detect_all(df, methods) *)
DetectAll(frames, choices) ==
    /\ Len(anomaly_history) < MaxReports
    /\ \E df \in frames : \E methods \in choices :
       \E forest \in ForestChoices(df, methods) :
          LET r == detect_all(df, methods, forest, anomaly_history, now)
          IN  /\ anomaly_history' = r.anomaly_history
              /\ last' = [op |-> "detect_all",
                          input |-> [df |-> df, methods |-> methods,
                                     forest |-> forest],
                          status |-> r.status, exception |-> r.exception,
                          returned |-> r.returned]
    /\ UNCHANGED <<now, report_file>>
    /\ UNCHANGED <<alerting_vars, engine_vars, settings_vars>>

(* detect_zscore(df, threshold) *)
DetectZscore(frames) ==
    /\ \E df \in frames : \E threshold \in {2, 3} :
          last' = [op |-> "detect_zscore",
                   input |-> [df |-> df, threshold |-> threshold],
                   status |-> "returned",
                   returned |-> detect_zscore(df, threshold)]
    /\ UNCHANGED <<now, anomaly_history, report_file>>
    /\ UNCHANGED <<alerting_vars, engine_vars, settings_vars>>

(* detect_iqr(df, multiplier); multiplier2 is twice the multiplier *)
DetectIqr(frames) ==
    /\ \E df \in frames : \E multiplier2 \in {3, 6} :
          last' = [op |-> "detect_iqr",
                   input |-> [df |-> df, multiplier2 |-> multiplier2],
                   status |-> "returned",
                   returned |-> detect_iqr(df, multiplier2)]
    /\ UNCHANGED <<now, anomaly_history, report_file>>
    /\ UNCHANGED <<alerting_vars, engine_vars, settings_vars>>

(* _calculate_severity(df, anomaly_indices) *)
CalculateSeverity(frames) ==
    /\ \E df \in frames : \E anomaly_indices \in RowSets(df) :
          last' = [op |-> "_calculate_severity",
                   input |-> [df |-> df, anomaly_indices |-> anomaly_indices],
                   status |-> "returned",
                   returned |-> calculate_severity(df, anomaly_indices)]
    /\ UNCHANGED <<now, anomaly_history, report_file>>
    /\ UNCHANGED <<alerting_vars, engine_vars, settings_vars>>

(* save_report(report, filepath) of a report of the history *)
SaveReport ==
    /\ \E i \in 1..Len(anomaly_history) : \E opened \in BOOLEAN :
          /\ report_file' = save_report(anomaly_history[i], report_file, opened)
          /\ last' = [op |-> "save_report", input |-> i, opened |-> opened]
    /\ UNCHANGED <<now, anomaly_history>>
    /\ UNCHANGED <<alerting_vars, engine_vars, settings_vars>>

(* a reader of the repository is handed a report of the history *)
ReadReport ==
    /\ \E i \in 1..Len(anomaly_history) : \E reader \in Readers :
          LET r == read_report(reader, anomaly_history[i])
          IN  last' = [op |-> "read_report", reader |-> reader, input |-> i,
                       status |-> r.status, exception |-> r.exception]
    /\ UNCHANGED <<now, anomaly_history, report_file>>
    /\ UNCHANGED <<alerting_vars, engine_vars, settings_vars>>

(* the first call on a new detector, over every frame of the shapes above *)
FirstDetectAll ==
    /\ last.op = "init"
    /\ DetectAll(DetectorFrames \cup {OutlierFixture}, MethodChoices)

FirstDetectZscore ==
    /\ last.op = "init"
    /\ DetectZscore(DetectorFrames \cup {OutlierFixture})

FirstDetectIqr ==
    /\ last.op = "init"
    /\ DetectIqr(DetectorFrames \cup {OutlierFixture})

FirstCalculateSeverity ==
    /\ last.op = "init"
    /\ CalculateSeverity(DetectorFrames)

NextDetector ==
    \/ FirstDetectAll
    \/ FirstDetectZscore
    \/ FirstDetectIqr
    \/ FirstCalculateSeverity

SpecDetector == InitDetector /\ [][NextDetector]_vars

(* the frame of the reports that are saved: three columns, of which one
   has a spike and one a pair *)
ReportFrames == {Frame(12, <<"spike", "pair", "flat">>)}

(* an engine and a detector in use: analyses and detections, exports and
   imports in any order *)
NextReports ==
    \/ AnalyzeDataset({<<[age |-> <<30>>, name |-> "Bob"]>>}, {<<>>}, {<<>>})
    \/ SaveMetrics
    \/ LoadMetricsHistory
    \/ DetectAll(ReportFrames, {<<<<"zscore">>>>, <<<<"zscore", "iqr">>>>})
    \/ SaveReport

SpecReports == InitDetector /\ [][NextReports]_vars

(* a detector in use and the readers of its reports *)
NextReaders ==
    \/ DetectAll({Frame(n, shape) : n \in {4, 12},
                                   shape \in {<<>>, <<"spike">>,
                                              <<"spike", "pair", "flat">>}},
                 {<<>>, <<<<"zscore", "iqr">>>>})
    \/ ReadReport

SpecReaders == InitDetector /\ [][NextReaders]_vars

---------------------------------------------------------------------------
(* The configuration manager: inputs, operations and specification *)

(* the file of the fixture temp_config_file *)
TestDocument ==
    yaml_dump([slack |-> [webhook_url |-> "https://hooks.slack.com/test",
                          channel |-> "#test-alerts", enabled |-> TRUE],
               quality |-> [min_completeness |-> 95, min_uniqueness |-> 90,
                            anomaly_threshold |-> 300],
               monitoring |-> [check_interval_minutes |-> 30,
                               data_sources |-> <<[name |-> "test_db",
                                                   type |-> "database",
                                                   path |-> None]>>]])

(* a file that leaves every field with a default out *)
MinimalDocument ==
    yaml_dump([slack |-> [webhook_url |-> "https://hooks.slack.com/ops"],
               quality |-> EmptyDict,
               monitoring |-> [data_sources |-> <<[name |-> "sales",
                                                   type |-> "csv"]>>]])

(* a file the schema rejects: min_completeness is 1.5 *)
InvalidDocument ==
    yaml_dump([slack |-> [webhook_url |-> "https://hooks.slack.com/test"],
               quality |-> [min_completeness |-> 150],
               monitoring |-> [data_sources |-> <<>>]])

ConfigFiles ==
    {NoFile} \cup {[kind |-> "yaml", data |-> d] :
                      d \in {TestDocument, MinimalDocument, InvalidDocument}}

(* the Config objects a client saves: the one of the fixture with another
   channel, and with another check interval *)
SavedConfigs ==
    LET c == Config(yaml_safe_load(TestDocument)).config[1]
    IN  {[c EXCEPT !.slack.channel = "#ops"],
         [c EXCEPT !.monitoring.check_interval_minutes = 5]}

(* ConfigManager(config_path), beside a file or beside none *)
InitConfig ==
    /\ now = 0
    /\ config = DefaultConfig
    /\ slack_notifier = None
    /\ rate_limiter = None
    /\ max_alerts_per_hour = None
    /\ cooldown_minutes = None
    /\ alert_history = EmptyDict
    /\ cooldown_until = EmptyDict
    /\ alerts = <<>>
    /\ calls = EmptyDict
    /\ metrics_history = <<>>
    /\ metrics_file = NoFile
    /\ NoDetector
    /\ config_yaml \in ConfigFiles
    /\ cached_config = <<>>
    /\ established = <<>>
    /\ last = [op |-> "init"]

(* the end of load, get and reload: r is what the call computed, and
   loaded tells whether it read the file *)
Loads(op, r, loaded) ==
    /\ cached_config' = r.cache
    /\ established' = IF loaded /\ r.status = "returned" THEN r.returned
                      ELSE established
    /\ last' = [op |-> op, status |-> r.status, exception |-> r.exception,
                returned |-> r.returned]
    /\ UNCHANGED <<now, config_yaml>>
    /\ UNCHANGED <<alerting_vars, engine_vars, detector_vars>>

Load == Loads("load", load(config_yaml, cached_config), TRUE)

Get == Loads("get", get(config_yaml, cached_config),
             nothing_cached(cached_config))

Reload == Loads("reload", reload(config_yaml, cached_config), TRUE)

(* ConfigManager.save(config) *)
Save ==
    /\ \E new_config \in SavedConfigs : \E opened \in BOOLEAN :
          LET r == save(new_config, config_yaml, cached_config, opened)
          IN  /\ config_yaml' = r.file
              /\ cached_config' = r.cache
              /\ established' = IF r.status = "returned" THEN <<new_config>>
                                ELSE established
              /\ last' = [op |-> "save", status |-> r.status,
                          exception |-> r.exception, returned |-> <<>>]
    /\ UNCHANGED now
    /\ UNCHANGED <<alerting_vars, engine_vars, detector_vars>>

(* someone else writes or removes the file *)
EditFile ==
    /\ \E file \in ConfigFiles :
          /\ file # config_yaml
          /\ config_yaml' = file
          /\ last' = [op |-> "edit", status |-> "returned",
                      exception |-> None, returned |-> <<>>]
    /\ UNCHANGED <<now, cached_config, established>>
    /\ UNCHANGED <<alerting_vars, engine_vars, detector_vars>>

NextConfig == Load \/ Get \/ Save \/ Reload \/ EditFile

SpecConfig == InitConfig /\ [][NextConfig]_vars

---------------------------------------------------------------------------
(* Properties of the rate limiter, over the call log *)

(* this step is a can_send_alert call for k *)
IsCallFor(k) ==
    /\ k \in DOMAIN calls'
    /\ Len(calls'[k]) = Len(DictGet(calls, k, <<>>)) + 1

(* the allowed calls for k made at a time in (t - 60, t] *)
AllowedIn(k, t) ==
    {i \in 1..Len(DictGet(calls, k, <<>>)) :
        /\ calls[k][i].allowed
        /\ calls[k][i].t > t - HourMinutes
        /\ calls[k][i].t <= t}

(* C1: for a key with no prior history, of the first max_alerts_per_hour + 1
   calls made within one hour of the first, the first max_alerts_per_hour
   are allowed and the next one is denied and leaves the key in cooldown
   for cooldown_minutes. *)
C1_CapReachedWithinHour ==
    \A k \in DOMAIN calls : \A n \in 1..Len(calls[k]) :
        (n <= max_alerts_per_hour + 1
         /\ calls[k][n].t - calls[k][1].t < HourMinutes)
        => /\ calls[k][n].allowed = (n <= max_alerts_per_hour)
           /\ (n = max_alerts_per_hour + 1 /\ n = Len(calls[k]))
              => /\ k \in DOMAIN cooldown_until
                 /\ cooldown_until[k] = calls[k][n].t + cooldown_minutes

(* C1 witness: with a cap of 2, a third call within the hour was denied *)
C1_Witness ==
    \E k \in DOMAIN calls :
        /\ max_alerts_per_hour = 2
        /\ Len(calls[k]) = 3
        /\ calls[k][3].t - calls[k][1].t < HourMinutes
        /\ calls[k][3].t > calls[k][1].t
        /\ ~calls[k][3].allowed
        /\ k \in DOMAIN cooldown_until

(* the instants at which a window (t - 60, t] of key k can hold the most
   allowed calls: the number of calls in the window only grows when t
   reaches the time of a call, so every window is matched by one that ends
   at a call's time (or now) *)
WindowEnds(k) == {calls[k][i].t : i \in 1..Len(calls[k])} \cup {now}

(* C2: at every instant t, at most max_alerts_per_hour calls of a key were
   allowed at times in (t - 60 min, t]. *)
C2_SlidingWindowCap ==
    \A k \in DOMAIN calls : \A t \in WindowEnds(k) :
        Cardinality(AllowedIn(k, t)) <= max_alerts_per_hour

(* C2 witness: a window that is exactly full, and a later allowed call of
   the same key outside it *)
C2_Witness ==
    \E k \in DOMAIN calls : \E t \in 0..now :
        /\ Cardinality(AllowedIn(k, t)) = max_alerts_per_hour
        /\ max_alerts_per_hour = 2
        /\ \E i \in 1..Len(calls[k]) : calls[k][i].allowed /\ calls[k][i].t > t

(* C5: a call made before the key's cooldown expiry is denied and changes
   neither the key's history nor its cooldown expiry. *)
C5_CooldownDeniesAll ==
    [][\A k \in DOMAIN calls' :
          (IsCallFor(k) /\ k \in DOMAIN cooldown_until /\ now < cooldown_until[k])
          => /\ ~calls'[k][Len(calls'[k])].allowed
             /\ alert_history' = alert_history
             /\ cooldown_until' = cooldown_until]_vars

(* C5 witness: a call was denied with the cooldown reason, later than the
   call that started the cooldown *)
C5_Witness ==
    /\ last.op = "can_send_alert"
    /\ ~last.allowed
    /\ last.key \in DOMAIN cooldown_until
    /\ now < cooldown_until[last.key]
    /\ now > cooldown_until[last.key] - cooldown_minutes
    /\ last.reason = "Em cooldown. Aguarde "
                     \o ToString(cooldown_until[last.key] - now) \o " minutos"

(* C6 as claimed: the first call made after the cooldown expiry has passed
   is allowed. *)
C6_FirstCallAfterExpiryAllowed ==
    [][\A k \in DOMAIN calls' :
          (IsCallFor(k) /\ k \in DOMAIN cooldown_until /\ now > cooldown_until[k])
          => calls'[k][Len(calls'[k])].allowed]_vars

(* C6 amended: the first call made once the cooldown expiry has passed is
   allowed exactly when fewer than max_alerts_per_hour allowed calls of the
   key are less than 60 minutes old, which is always so when
   cooldown_minutes >= 60; otherwise it is denied and starts a new cooldown
   of cooldown_minutes from that call. *)
C6_FirstCallAfterExpiry ==
    [][\A k \in DOMAIN calls' :
          (IsCallFor(k) /\ k \in DOMAIN cooldown_until /\ now >= cooldown_until[k])
          => LET allowed == calls'[k][Len(calls'[k])].allowed
             IN  /\ allowed = (Cardinality(AllowedIn(k, now)) < max_alerts_per_hour)
                 /\ cooldown_minutes >= HourMinutes => allowed
                 /\ allowed => k \notin DOMAIN cooldown_until'
                 /\ ~allowed => /\ k \in DOMAIN cooldown_until'
                                /\ cooldown_until'[k] = now + cooldown_minutes
                                /\ Len(alert_history'[k]) = max_alerts_per_hour]_vars

(* C6 witness: a key that was in cooldown is allowed again by the call that
   finds the cooldown expired *)
C6_Witness ==
    /\ last.op = "can_send_alert"
    /\ last.in_cooldown
    /\ last.allowed
    /\ \E i \in 1..Len(calls[last.key]) : ~calls[last.key][i].allowed

---------------------------------------------------------------------------
(* Properties of the alert manager's gate *)

(* the rate-limit key of an alert, as the specification words it *)
KeyOf(alert) ==
    alert.source \o ":" \o
        (IF alert.metric_name \in {None, ""} THEN alert.title
         ELSE alert.metric_name)

(* key k holds max_alerts_per_hour emissions of the last hour *)
KeyAtCap(k) ==
    /\ rate_limiter # None
    /\ Cardinality(AllowedIn(k, now)) = max_alerts_per_hour

(* key k is in a cooldown that has not expired *)
KeyInCooldown(k) == k \in DOMAIN cooldown_until /\ now < cooldown_until[k]

(* C3: should_send_alert returns allowed=true for every CRITICAL alert in
   every reachable state of the limiter: the CRITICAL alerts a client may
   hand in are allowed in every reachable state, and every CRITICAL alert
   handed in was allowed. *)
C3_CriticalAlwaysAllowed ==
    /\ \A name \in SampleNames :
          SampleAlert(name, now).severity = CRITICAL
          => should_send_alert(SampleAlert(name, now), alert_history,
                               cooldown_until, now).allowed
    /\ (last.op = "should_send_alert" /\ last.alert.severity = CRITICAL)
       => last.allowed

(* C3 witness: a CRITICAL alert was allowed while its key is at its cap and
   in cooldown *)
C3_Witness ==
    /\ last.op = "should_send_alert"
    /\ last.alert.severity = CRITICAL
    /\ last.allowed
    /\ KeyAtCap(KeyOf(last.alert))
    /\ KeyInCooldown(KeyOf(last.alert))

(* C4: a should_send_alert call for a CRITICAL alert leaves alert_history
   and cooldown_until unchanged for every key (and makes no call of the
   limiter). *)
C4_CriticalLeavesLimiterUnchanged ==
    [][(last'.op = "should_send_alert" /\ last'.alert.severity = CRITICAL)
       => /\ alert_history' = alert_history
          /\ cooldown_until' = cooldown_until
          /\ calls' = calls]_vars

(* C4 witness: after a CRITICAL alert, its key holds one emission of a
   non-critical alert, below the cap, and is in no cooldown *)
C4_Witness ==
    /\ last.op = "should_send_alert"
    /\ last.alert.severity = CRITICAL
    /\ rate_limiter # None
    /\ max_alerts_per_hour = 2
    /\ Len(DictGet(alert_history, KeyOf(last.alert), <<>>)) = 1
    /\ KeyOf(last.alert) \notin DOMAIN cooldown_until

(* C7: the limiter is consulted under the key source:(metric_name or title)
   of the alert; the answer is decided by that key's cooldown and by the
   allowed calls of that key in the last hour, whatever alerts made them;
   and the call changes the history, the cooldown and the call log of no
   other key. *)
C7_KeyScope ==
    [][/\ \A k \in DOMAIN calls' :
            IsCallFor(k)
            => /\ k = KeyOf(last'.alert)
               /\ last'.allowed =
                     (/\ ~KeyInCooldown(k)
                      /\ Cardinality(AllowedIn(k, now)) < max_alerts_per_hour)
               /\ \A k2 \in (DOMAIN calls' \cup DOMAIN alert_history'
                             \cup DOMAIN cooldown_until') \ {k} :
                     /\ k2 \in DOMAIN calls /\ calls'[k2] = calls[k2]
                     /\ k2 \in DOMAIN alert_history
                     /\ alert_history'[k2] = alert_history[k2]
                     /\ k2 \in DOMAIN cooldown_until' <=> k2 \in DOMAIN cooldown_until
                     /\ k2 \in DOMAIN cooldown_until
                        => cooldown_until'[k2] = cooldown_until[k2]
       /\ calls' = calls
          => alert_history' = alert_history /\ cooldown_until' = cooldown_until
      ]_vars

(* C7 witness: an alert without metric_name is denied by the quota of the
   key its title gives it, which quality alerts of that metric share, while
   another key still has quota left *)
C7_Witness ==
    /\ last.op = "should_send_alert"
    /\ last.alert.metric_name = None
    /\ last.alert.source = "data_quality"
    /\ ~last.allowed
    /\ KeyAtCap("data_quality:completeness")
    /\ \E k2 \in DOMAIN calls :
          /\ k2 # "data_quality:completeness"
          /\ Cardinality(AllowedIn(k2, now)) = 1
          /\ max_alerts_per_hour = 2

---------------------------------------------------------------------------
(* Properties of the alerting system *)

SystemOps == {"check_data_quality", "check_anomalies", "report_pipeline_error"}

(* C8 as claimed: every produced alert is submitted to the rate-limit gate,
   and the notifier is invoked for an alert only if the gate allowed it. *)
C8_EveryAlertGated ==
    last.op \in SystemOps
    => /\ Len(last.dispatch) = Len(last.alerts)
       /\ \A i \in 1..Len(last.alerts) :
             /\ last.dispatch[i].gate \in {"allowed", "denied"}
             /\ last.dispatch[i].notified # <<>>
                => last.dispatch[i].gate = "allowed"

(* C8 amended: when the system has a notifier, every produced alert is
   submitted to the rate-limit gate, the notifier is invoked for an alert
   only if the gate allowed that alert, and a denied alert never reaches
   the notifier; when it has none (Slack disabled, or SlackNotifier()
   failed), a produced alert is neither submitted to the gate nor sent. *)
C8_GateBeforeNotifier ==
    last.op \in SystemOps
    => /\ Len(last.dispatch) = Len(last.alerts)
       /\ \A i \in 1..Len(last.alerts) :
             LET d == last.dispatch[i]
             IN  /\ slack_notifier # None => d.gate \in {"allowed", "denied"}
                 /\ slack_notifier = None
                    => d.gate = "not submitted" /\ d.notified = <<>>
                 /\ d.notified # <<>> => d.gate = "allowed"
                 /\ d.gate = "denied" => d.notified = <<>>

(* C8 witness: one check_data_quality call produced an alert the gate
   denied, which did not reach the notifier, and one it allowed, which did *)
C8_Witness ==
    /\ last.op = "check_data_quality"
    /\ \E i, j \in 1..Len(last.alerts) :
          /\ last.dispatch[i].gate = "denied"
          /\ last.dispatch[i].notified = <<>>
          /\ last.dispatch[j].gate = "allowed"
          /\ last.dispatch[j].notified # <<>>

(* the threshold triple the specification gives a metric: its own, or the
   fallback (the completeness triple of the config) *)
TripleOf(name) ==
    IF name \in DOMAIN config.thresholds
    THEN config.thresholds[name]
    ELSE config.thresholds["completeness"]

Breaches(m) ==
    \/ m.score < TripleOf(m.name).critical
    \/ m.score < TripleOf(m.name).error
    \/ m.score < TripleOf(m.name).warning

SeverityOf(m) ==
    IF m.score < TripleOf(m.name).critical THEN CRITICAL
    ELSE IF m.score < TripleOf(m.name).error THEN ERROR
    ELSE WARNING

(* C9: a check_data_quality call that returns, returns one alert for each
   metric whose score is below at least one of its thresholds, in the order
   of the metrics, and none for any other metric; the alert's severity is
   CRITICAL if score < critical, else ERROR if score < error, else WARNING,
   and its threshold is the threshold of that severity.  (A score equal to
   a threshold is not below it.) *)
C9_OneAlertPerBreach ==
    (last.op = "check_data_quality" /\ last.status = "returned")
    => LET breaching == SelectSeq(last.input, Breaches)
       IN  /\ Len(last.alerts) = Len(breaching)
           /\ \A i \in 1..Len(breaching) :
                 /\ last.alerts[i].metric_name = breaching[i].name
                 /\ last.alerts[i].metric_value = <<breaching[i].score>>
                 /\ last.alerts[i].severity = SeverityOf(breaching[i])
                 /\ last.alerts[i].threshold =
                       <<TripleOf(breaching[i].name)[SeverityOf(breaching[i])]>>

(* C9 witness: of two metrics, the one whose score equals its critical
   threshold got an ERROR alert and the one whose score equals its warning
   threshold got none *)
C9_Witness ==
    /\ last.op = "check_data_quality"
    /\ last.status = "returned"
    /\ config = DefaultConfig
    /\ last.input = <<[name |-> "completeness", score |-> 80],
                      [name |-> "uniqueness", score |-> 98]>>
    /\ Len(last.alerts) = 1
    /\ last.alerts[1].severity = ERROR
    /\ last.alerts[1].threshold = <<90>>

(* C10: under every config the system accepts, check_data_quality
   completes without raising, and classifies a configured metric against
   its own triple and any other metric against a default triple. *)
C10_FallbackTriple ==
    last.op = "check_data_quality"
    => /\ last.status = "returned"
       /\ \A i \in 1..Len(last.alerts) :
             \E j \in 1..Len(last.input) :
                /\ last.input[j].name = last.alerts[i].metric_name
                /\ last.alerts[i].threshold[1] \in
                      {TripleOf(last.input[j].name)[s] :
                          s \in {WARNING, ERROR, CRITICAL}}

(* C11: check_anomalies returns an alert if and only if current_value lies
   outside the closed range [min, max]: a value equal to min or to max (or
   between them) produces no alert, no dispatch and no use of the limiter,
   and a value below min or above max produces exactly one alert, of the
   requested severity, and one dispatch of it. *)
C11_AnomalyIffOutsideRange ==
    last.op = "check_anomalies"
    => LET v  == last.input.current_value
           lo == last.input.expected_range[1]
           hi == last.input.expected_range[2]
       IN  /\ last.status = "returned"
           /\ IF v < lo \/ v > hi
              THEN /\ Len(last.alerts) = 1
                   /\ Len(last.dispatch) = 1
                   /\ last.alerts[1].severity = last.input.severity
                   /\ last.alerts[1].metric_name = last.input.metric_name
                   /\ last.alerts[1].metric_value = <<v>>
              ELSE /\ last.alerts = <<>>
                   /\ last.dispatch = <<>>
                   /\ alert_history = EmptyDict
                   /\ calls = EmptyDict

(* C11 witness: a value equal to max produced no alert *)
C11_Witness ==
    /\ last.op = "check_anomalies"
    /\ last.input.current_value = last.input.expected_range[2]
    /\ last.alerts = <<>>

(* the notifier raised while the i-th alert of the last operation was
   dispatched *)
NotifierRaisedAt(i) ==
    /\ last.dispatch[i].notified # <<>>
    /\ last.dispatch[i].notified[1].outcome = "raised"

(* C12: an exception raised by the notifier while an alert is dispatched is
   a delivery failure of that alert only: the operation (check_data_quality,
   check_anomalies, report_pipeline_error) still returns, the dispatch of
   that alert yields False, and a check_data_quality call still turns every
   breaching metric, the later ones included, into an alert and submits it
   to the gate. *)
C12_NotifierExceptionIsolated ==
    (/\ last.op \in SystemOps
     /\ \E i \in 1..Len(last.dispatch) : NotifierRaisedAt(i))
    => /\ last.status = "returned"
       /\ Len(last.dispatch) = Len(last.alerts)
       /\ \A i \in 1..Len(last.dispatch) :
             /\ NotifierRaisedAt(i) => ~last.dispatch[i].returned
             /\ last.dispatch[i].gate \in {"allowed", "denied"}
       /\ last.op = "check_data_quality"
          => LET breaching == SelectSeq(last.input, Breaches)
             IN  /\ Len(last.alerts) = Len(breaching)
                 /\ \A i \in 1..Len(breaching) :
                       last.alerts[i].metric_name = breaching[i].name

(* C12 witness: the notifier raised on the first alert of a
   check_data_quality call, and the alert of the next metric was delivered *)
C12_Witness ==
    /\ last.op = "check_data_quality"
    /\ Len(last.alerts) = 2
    /\ NotifierRaisedAt(1)
    /\ last.dispatch[2].notified # <<>>
    /\ last.dispatch[2].returned

(* the delivery of the i-th alert of the last operation failed: the
   notifier was called and raised or returned False *)
DeliveryFailedAt(i) ==
    /\ last.dispatch[i].notified # <<>>
    /\ last.dispatch[i].notified[1].outcome \in {"failed", "raised"}

(* what the caller of the last operation would have received from the same
   call on the same system had the notifier delivered every alert (the
   operation is the first one of a new system); last.alerts is what the
   caller did receive: the list of check_data_quality, the alert or None of
   check_anomalies *)
ReceivedIfDelivered ==
    IF last.op = "check_data_quality"
    THEN check_data_quality(last.input, EmptyDict, EmptyDict, now,
                            [i \in DOMAIN last.input |-> "sent"]).alerts
    ELSE check_anomalies(last.input.metric_name, last.input.current_value,
                         last.input.expected_range, last.input.severity,
                         EmptyDict, EmptyDict, now, "sent").alerts

(* C13: when the delivery of an alert fails, the caller of the operation
   that produced it receives a result that marks the failure: what it
   receives differs from what it receives when the alerts are delivered. *)
C13_DeliveryFailureSurfaced ==
    (/\ last.op \in {"check_data_quality", "check_anomalies"}
     /\ \E i \in 1..Len(last.dispatch) : DeliveryFailedAt(i))
    => last.alerts # ReceivedIfDelivered

(* C14: the channel and the mention list _send_alert_to_slack passes to the
   notifier depend on the alert's severity only, and both are read from
   the configuration's severity mappings: the channel is the entry of the
   channels mapping for the alert's severity and the mention list the entry
   of the mentions mapping for it (None when there is no entry), so two
   alerts of equal severity get the same channel and the same mention
   list. *)
C14_RoutingBySeverity ==
    last.op \in SystemOps
    => \A i \in 1..Len(last.dispatch) :
          last.dispatch[i].notified # <<>>
          => LET call == last.dispatch[i].notified[1]
                 severity == last.alerts[i].severity
             IN  /\ call.channel = DictGet(config.channels, severity, None)
                 /\ call.mention_users = OptionalGet(config.mentions, severity)

(* C15: every Alert produced by check_data_quality, check_anomalies or
   report_pipeline_error is appended exactly once to the AlertManager's
   alert list when it is created: an operation that produces k alerts
   leaves the list extended by those k alerts, in order, and get_summary's
   total_alerts larger by k. *)
C15_ProducedAlertsInHistory ==
    [][last'.op \in SystemOps
       => /\ alerts' = alerts \o last'.alerts
          /\ get_summary(alerts', now').total_alerts
                = get_summary(alerts, now).total_alerts + Len(last'.alerts)]_vars

---------------------------------------------------------------------------
(* Properties of the quality-metrics engine *)

(* the last operation is an analyze_dataset call that returned a report *)
Analyzed == last.op = "analyze_dataset" /\ last.status = "returned"

(* the rules calculate_validity applied in the last analyze_dataset call *)
AppliedRules ==
    IF last.input.validation_rules = <<>>
    THEN get_default_validations(last.input.df)
    ELSE last.input.validation_rules

(* C16: in calculate_validity a rule that raises is recorded with score 0
   in by_rule, every other rule is still evaluated and recorded, the call
   does not raise, and overall is the unweighted mean of the percentages
   reported in by_rule (to the hundredth the values are rounded to). *)
C16_ValidityIsolatesFailingRules ==
    Analyzed
    => LET validity == last.returned[1].details.validity
           by_rule == validity.by_rule
           total == Sum([i \in 1..Len(by_rule) |-> by_rule[i].pct])
       IN  /\ Len(by_rule) = Len(AppliedRules)
           /\ \A i \in 1..Len(by_rule) :
                 /\ by_rule[i].rule = AppliedRules[i]
                 /\ rule_func(AppliedRules[i], last.input.df).raised
                    => by_rule[i].pct = 0
           /\ validity.overall * Len(by_rule) - total <= Len(by_rule)
           /\ total - validity.overall * Len(by_rule) <= Len(by_rule)

(* C17: for a dataset with at least one row, and any validation rules, the
   completeness, uniqueness, validity and consistency of the report
   analyze_dataset returns each lie in [0, 100]. *)
C17_MetricsWithinRange ==
    (Analyzed /\ Len(last.input.df) >= 1)
    => LET report == last.returned[1]
       IN  /\ report.completeness \in 0..10000
           /\ report.uniqueness \in 0..10000
           /\ report.validity \in 0..10000
           /\ report.consistency \in 0..10000

(* C17 witness: a report of a frame with a null and a duplicate, under a
   scalar-count rule, whose four values lie strictly inside the range *)
C17_Witness ==
    /\ Analyzed
    /\ last.input.validation_rules = <<"named_count", "adult">>
    /\ LET report == last.returned[1]
       IN  /\ report.completeness \in 1..9999
           /\ report.uniqueness \in 1..9999
           /\ report.validity \in 1..9999
           /\ report.consistency \in 1..9999

(* 10000 times the weighted sum of the four values of a report *)
WeightedSum(report) ==
    30 * report.completeness + 25 * report.uniqueness
        + 25 * report.validity + 20 * report.consistency

(* C18: the quality_score of a report is 0.30 * completeness + 0.25 *
   uniqueness + 0.25 * validity + 0.20 * consistency of the same report,
   rounded to 2 decimals (it is a hundredth nearest to the sum); the
   weights sum to 1, so the score lies in [0, 100] when the four values
   do. *)
C18_QualityScoreIsWeightedSum ==
    Analyzed
    => LET report == last.returned[1]
       IN  /\ 100 * report.quality_score - WeightedSum(report) <= 50
           /\ WeightedSum(report) - 100 * report.quality_score <= 50
           /\ report.completeness = report.details.completeness.overall
           /\ report.uniqueness = report.details.uniqueness.overall
           /\ report.validity = report.details.validity.overall
           /\ report.consistency = report.details.consistency.overall
           /\ WeightCompleteness + WeightUniqueness + WeightValidity
                 + WeightConsistency = 100
           /\ (/\ report.completeness \in 0..10000
               /\ report.uniqueness \in 0..10000
               /\ report.validity \in 0..10000
               /\ report.consistency \in 0..10000)
              => report.quality_score \in 0..10000

(* C18 witness: a report whose weighted sum is not a whole number of
   hundredths, so that the score is the sum rounded *)
C18_Witness ==
    /\ Analyzed
    /\ WeightedSum(last.returned[1]) % 100 \notin {0, 50}
    /\ last.returned[1].quality_score \in 1..9999

(* C19: an analysis call on a dataset without rows (calculate_completeness,
   analyze_dataset) fails with an error that propagates to the caller: no
   report is returned and nothing is appended to the history. *)
C19_EmptyDatasetFails ==
    (/\ last.op \in {"calculate_completeness", "analyze_dataset"}
     /\ Len(last.input.df) = 0)
    => /\ last.status = "raised"
       /\ last.returned = <<>>
       /\ metrics_history = <<>>

IsPrefix(s, t) == Len(s) <= Len(t) /\ SubSeq(t, 1, Len(s)) = s

(* the reports a metrics file holds, in the order of the file *)
ReportsIn(file) ==
    IF file.kind = "list"
    THEN [i \in 1..Len(file.data) |-> json_load_metrics(file.data[i])]
    ELSE <<json_load_metrics(file.data)>>

(* C20 as claimed: the history of the engine is append-only: a successful
   analyze_dataset call appends the report it returns at the end of
   metrics_history, and no operation of the engine removes, replaces or
   reorders entries (the history before is a prefix of the history
   after). *)
C20_HistoryAppendOnly ==
    [][/\ (last'.op = "analyze_dataset" /\ last'.status = "returned")
          => metrics_history' = Append(metrics_history, last'.returned[1])
       /\ IsPrefix(metrics_history, metrics_history')]_vars

(* C20 amended: a successful analyze_dataset call appends the report it
   returns at the end of metrics_history, a call that raises and
   save_metrics leave the history as it was, and load_metrics_history
   replaces the whole history by the reports of the file it reads (it
   leaves the history as it was when the file cannot be read). *)
C20_HistoryAppendOnlyUntilLoaded ==
    [][/\ (last'.op = "analyze_dataset" /\ last'.status = "returned")
          => metrics_history' = Append(metrics_history, last'.returned[1])
       /\ (last'.op = "analyze_dataset" /\ last'.status = "raised")
          => metrics_history' = metrics_history
       /\ last'.op = "save_metrics"
          => metrics_history' = metrics_history
       /\ last'.op = "load_metrics_history"
          => metrics_history' = IF metrics_file.kind = "missing"
                                THEN metrics_history
                                ELSE ReportsIn(metrics_file)
       /\ last'.op # "load_metrics_history"
          => IsPrefix(metrics_history, metrics_history')]_vars

(* C20 witness: an analyze_dataset call appended its report to a history
   that held a report already *)
C20_Witness ==
    /\ Analyzed
    /\ Len(metrics_history) = 2
    /\ metrics_history[2] = last.returned[1]
    /\ metrics_history[1] # metrics_history[2]

---------------------------------------------------------------------------
(* Properties of the limiter's stored state *)

(* C25 as claimed: in every reachable state every timestamp stored in any
   key's emission history is at most one hour older than the current time. *)
C25_StoredTimestampsWithinHour ==
    \A k \in DOMAIN alert_history : \A i \in 1..Len(alert_history[k]) :
        now - alert_history[k][i] <= HourMinutes

(* C25 amended: a can_send_alert call for a key that is not denied for being
   in cooldown leaves only timestamps less than one hour old stored for that
   key; the passage of time, get_stats and a call denied in cooldown remove
   nothing, so older timestamps stay stored until such a call. *)
C25_StoredTimestampsPrunedByGate ==
    [][/\ \A k \in DOMAIN calls' :
             (IsCallFor(k) /\ ~InCooldown(cooldown_until, k, now))
             => \A i \in 1..Len(alert_history'[k]) :
                    now - alert_history'[k][i] < HourMinutes
       /\ \A k \in DOMAIN alert_history :
             (~IsCallFor(k) \/ InCooldown(cooldown_until, k, now))
             => alert_history'[k] = alert_history[k]]_vars

(* C25 witness: a call found a timestamp more than an hour old stored for
   its key and removed it *)
C25_Witness ==
    /\ last.op = "can_send_alert"
    /\ last.allowed
    /\ alert_history[last.key] = <<now>>
    /\ \E i \in 1..Len(calls[last.key]) :
          /\ calls[last.key][i].allowed
          /\ calls[last.key][i].t < now - HourMinutes

(* C28: with cooldown_minutes < 60, when the cooldown of a key has expired
   but max_alerts_per_hour of its emissions are still less than 60 minutes
   old, the next can_send_alert call for the key is denied with the cap
   reason, replaces the expired cooldown by one of cooldown_minutes counted
   from that call, and records no emission. *)
C28_ExpiredCooldownRestartsAtCap ==
    [][\A k \in DOMAIN calls' :
          (/\ IsCallFor(k)
           /\ cooldown_minutes < HourMinutes
           /\ k \in DOMAIN cooldown_until
           /\ now >= cooldown_until[k]
           /\ Cardinality(AllowedIn(k, now)) >= max_alerts_per_hour)
          => /\ ~calls'[k][Len(calls'[k])].allowed
             /\ last'.reason = "Limite de " \o ToString(max_alerts_per_hour)
                               \o " alertas por hora atingido"
             /\ k \in DOMAIN cooldown_until'
             /\ cooldown_until'[k] = now + cooldown_minutes
             /\ alert_history'[k] = Recent(alert_history[k], now)
             /\ \A i \in 1..Len(alert_history'[k]) :
                   \E j \in AllowedIn(k, now) :
                       calls[k][j].t = alert_history'[k][i]]_vars

(* C28 witness: a call found the cooldown of its key expired and the key
   still at its cap, and started a new cooldown *)
C28_Witness ==
    /\ last.op = "can_send_alert"
    /\ last.in_cooldown
    /\ ~last.allowed
    /\ last.reason = "Limite de " \o ToString(max_alerts_per_hour)
                     \o " alertas por hora atingido"
    /\ cooldown_minutes < HourMinutes
    /\ cooldown_until[last.key] = now + cooldown_minutes

(* the allowed calls for k made before its i-th call *)
AllowedBefore(k, i) == {j \in 1..(i - 1) : calls[k][j].allowed}

(* C29: with max_alerts_per_hour >= 1, a can_send_alert call made at least
   60 + cooldown_minutes minutes after the most recent allowed emission of
   its key (or for a key with none) is allowed, whatever denied calls were
   made in between; so a key polled while the clock advances is allowed
   again within that time. *)
C29_NoPermanentLockout ==
    max_alerts_per_hour >= 1
    => \A k \in DOMAIN calls : \A i \in 1..Len(calls[k]) :
          (\A j \in AllowedBefore(k, i) :
              calls[k][i].t >= calls[k][j].t + HourMinutes + cooldown_minutes)
          => calls[k][i].allowed

(* C29 witness: a key allowed, then denied at least twice, then allowed
   again by a call 60 + cooldown_minutes minutes or more after its last
   emission *)
C29_Witness ==
    \E k \in DOMAIN calls : \E i, j, l, m \in 1..Len(calls[k]) :
        /\ i < j /\ j < l /\ l < m
        /\ calls[k][i].allowed
        /\ ~calls[k][j].allowed
        /\ ~calls[k][l].allowed
        /\ calls[k][l].t > calls[k][j].t
        /\ calls[k][m].allowed
        /\ calls[k][m].t >= calls[k][i].t + HourMinutes + cooldown_minutes

---------------------------------------------------------------------------
(* Properties of the dispatch and the quota *)

(* how many times x occurs in the sequence s *)
CountOf(s, x) == Cardinality({i \in 1..Len(s) : s[i] = x})

(* the alerts of the operation just completed that were rate limited,
   allowed by the gate, and have the key k *)
AllowedFor(k) ==
    {j \in 1..Len(last'.alerts) :
        /\ alert_key(last'.alerts[j]) = k
        /\ last'.dispatch[j].limited
        /\ last'.dispatch[j].gate = "allowed"}

(* C27: when the gate allows a rate-limited (non-critical) alert, the
   notifier is then called and the emission timestamp stays recorded in the
   limiter whatever the notifier does (deliver, return false or raise); an
   emission whose delivery failed counts toward the cap, so that once the
   recorded emissions reach the cap the next call for the key is denied and
   starts a cooldown. *)
C27_QuotaConsumedAtGate ==
    [][last'.op \in SystemOps
       => \A i \in 1..Len(last'.alerts) :
             LET d == last'.dispatch[i]
                 k == alert_key(last'.alerts[i])
             IN  (d.limited /\ d.gate = "allowed")
                 => /\ d.notified # <<>>
                    /\ k \in DOMAIN alert_history'
                    /\ CountOf(alert_history'[k], now)
                         = CountOf(DictGet(alert_history, k, <<>>), now)
                           + Cardinality(AllowedFor(k))
                    /\ AtCap(alert_history'[k])
                       => LET r == can_send_alert(alert_history', cooldown_until',
                                                  k, now)
                          IN  /\ ~r.allowed
                              /\ k \in DOMAIN r.cooldown_until]_vars

(* C27 witness: the gate allowed a non-critical alert, the notifier failed
   to deliver it (returned false or raised), and its timestamp is recorded
   and fills the cap of its key *)
C27_Witness ==
    /\ last.op \in SystemOps
    /\ \E i \in 1..Len(last.alerts) :
          LET d == last.dispatch[i]
              k == alert_key(last.alerts[i])
          IN  /\ d.limited
              /\ d.gate = "allowed"
              /\ d.notified # <<>>
              /\ d.notified[1].outcome \in {"failed", "raised"}
              /\ CountOf(alert_history[k], now) = max_alerts_per_hour

---------------------------------------------------------------------------
(* Properties of the anomaly detector *)

DetectedAll == last.op = "detect_all" /\ last.status = "returned"

RECURSIVE SumValues(_, _)
SumValues(f, S) ==
    IF S = {} THEN 0
    ELSE LET k == CHOOSE x \in S : TRUE
         IN  f[k] + SumValues(f, S \ {k})

(* the rows a method flags on the input of the detect_all call made last *)
FlaggedBy(m) ==
    IF m = "zscore" THEN detect_zscore(last.input.df, 3)
    ELSE IF m = "iqr" THEN detect_iqr(last.input.df, 3)
    ELSE detect_isolation_forest(last.input.df, last.input.forest)

(* C21: in every report detect_all returns, total_anomalies is the number
   of distinct flagged rows (the size of the reported index list, which
   holds no row twice); each anomalies_by_method entry is the number of
   rows that method flagged; every entry <= total_anomalies <= the sum of
   the entries when a method ran; total_anomalies <= total_rows; and
   anomaly_percentage is total_anomalies / total_rows * 100, to the two
   decimals the report keeps. *)
C21_ReportCounts ==
    DetectedAll
    => LET report == last.returned[1]
           indices == report.details.indices_anomalias
           by_method == report.anomalies_by_method
       IN  /\ report.total_anomalies = Len(indices)
           /\ \A i, j \in 1..Len(indices) : i # j => indices[i] # indices[j]
           /\ {indices[i] : i \in 1..Len(indices)}
                = UNION {FlaggedBy(m) : m \in DOMAIN by_method}
           /\ \A m \in DOMAIN by_method :
                 /\ by_method[m] = Cardinality(FlaggedBy(m))
                 /\ by_method[m] <= report.total_anomalies
           /\ report.total_anomalies <= SumValues(by_method, DOMAIN by_method)
           /\ report.total_rows = last.input.df.rows
           /\ report.total_anomalies <= report.total_rows
           /\ LET exact == report.total_anomalies * 10000
                  kept == report.anomaly_percentage * report.total_rows
              IN  /\ 2 * (kept - exact) <= report.total_rows
                  /\ 2 * (exact - kept) <= report.total_rows

(* C21 witness: a report of three methods that flagged overlapping rows:
   the total lies strictly between the largest entry and the sum, and the
   percentage is not a whole number of hundredths before rounding *)
C21_Witness ==
    /\ DetectedAll
    /\ LET report == last.returned[1]
           by_method == report.anomalies_by_method
       IN  /\ DOMAIN by_method = {"zscore", "iqr", "isolation_forest"}
           /\ \A m \in DOMAIN by_method :
                 by_method[m] >= 1 /\ by_method[m] < report.total_anomalies
           /\ report.total_anomalies < SumValues(by_method, DOMAIN by_method)
           /\ (report.total_anomalies * 10000) % report.total_rows # 0

(* the squared deviations of the column v from its mean, times n^2 *)
SquaredDeviations(v) ==
    Sum([j \in 1..Len(v) |->
            (Len(v) * v[j] - Sum(v)) * (Len(v) * v[j] - Sum(v))])

(* |v[i] - mean| / std > threshold for a column of non-zero standard
   deviation, with std^2 = (sum of squared deviations) / (n - 1) *)
FarFromMean(v, i, threshold) ==
    /\ Len(v) >= 2
    /\ SquaredDeviations(v) > 0
    /\ (Len(v) * v[i] - Sum(v)) * (Len(v) * v[i] - Sum(v)) * (Len(v) - 1)
         > threshold * threshold * SquaredDeviations(v)

(* C22: detect_zscore returns exactly the rows for which some numeric
   column of non-zero standard deviation has |value - mean| / std above
   the threshold; a column of zero variance contributes no row and no
   failure; on the column [10]*20 + [100, 105] + [10]*8 with threshold 3
   the result is exactly the two rows holding 100 and 105, and detect_iqr
   with multiplier 1.5 flags at least those two rows. *)
C22_ZscoreRows ==
    /\ last.op = "detect_zscore"
       => /\ last.status = "returned"
          /\ last.returned
               = {i \in 1..last.input.df.rows :
                     \E col \in DOMAIN last.input.df.columns :
                         FarFromMean(last.input.df.columns[col], i,
                                     last.input.threshold)}
          /\ (last.input.df = OutlierFixture /\ last.input.threshold = 3)
             => /\ Cardinality(last.returned) = 2
                /\ last.returned
                     = {i \in 1..30 : OutlierFixture.columns["value"][i]
                                          \in {100, 105}}
    /\ (/\ last.op = "detect_iqr"
        /\ last.input.df = OutlierFixture
        /\ last.input.multiplier2 = 3)
       => {i \in 1..30 : OutlierFixture.columns["value"][i] \in {100, 105}}
              \subseteq last.returned

(* C22 witness: detect_zscore on a frame of a zero-variance column and a
   column with one value more than 3 standard deviations from the mean *)
C22_Witness ==
    /\ last.op = "detect_zscore"
    /\ last.input.threshold = 3
    /\ last.returned = {1}
    /\ \E col \in DOMAIN last.input.df.columns :
          std_is_zero(last.input.df.columns[col])

(* the class the specification gives an anomalous row *)
RowSeverity(df, idx) ==
    LET numeric == Cardinality(DOMAIN df.columns)
        affected == Cardinality({col \in DOMAIN df.columns :
                                    FarFromMean(df.columns[col], idx, 3)})
    IN  IF numeric = 0 THEN "low"
        ELSE IF 10 * affected >= 5 * numeric THEN "high"
        ELSE IF 10 * affected >= 2 * numeric THEN "medium"
        ELSE "low"

(* C26: _calculate_severity counts each anomalous row in exactly one class
   (the counts sum to the number of anomalous rows): high when the fraction
   of numeric columns in which the row has |z| > 3 is >= 0.5, medium when
   it is >= 0.2, else low; with no numeric column every anomalous row is
   low. *)
C26_SeverityClasses ==
    last.op = "_calculate_severity"
    => /\ DOMAIN last.returned = {"low", "medium", "high"}
       /\ SumValues(last.returned, DOMAIN last.returned)
            = Cardinality(last.input.anomaly_indices)
       /\ \A class \in DOMAIN last.returned :
             last.returned[class]
               = Cardinality({idx \in last.input.anomaly_indices :
                                 RowSeverity(last.input.df, idx) = class})

(* C30: every report detect_all produces holds, in its details, the keys
   the readers of the repository subscript ('severity_distribution' and
   'anomaly_indices'), and every reader handed such a report returns. *)
C30_ReportsReadable ==
    /\ \A i \in 1..Len(anomaly_history) :
          {"severity_distribution", "anomaly_indices"}
              \subseteq DOMAIN anomaly_history[i].details
    /\ last.op = "read_report" => last.status = "returned"

(* C23: a report written by save_metrics and read back by
   load_metrics_history is the one entry of the history, equal to the
   original in every field; the document save_report writes deserializes
   to a dict in which every field of the report, the anomaly row indices
   and the severity distribution among them, has its original value. *)
C23_ReportsRoundTrip ==
    [][/\ (/\ last'.op = "load_metrics_history"
           /\ last.op = "save_metrics"
           /\ last.opened)
          => /\ metrics_history' = <<metrics_history[last.input]>>
             /\ \A f \in QualityMetricsFields :
                   metrics_history'[1][f] = metrics_history[last.input][f]
       /\ (last'.op = "save_report" /\ last'.opened)
          => LET report == anomaly_history[last'.input]
                 document == json_load_report(report_file'.data)
             IN  /\ DOMAIN document = DOMAIN report
                 /\ \A f \in DOMAIN report : document[f] = report[f]
                 /\ document.details.indices_anomalias
                      = report.details.indices_anomalias
                 /\ document.details.distribuicao_severity
                      = report.details.distribuicao_severity]_vars

(* C23 witness: the history was loaded from a file save_metrics wrote, and
   the file of save_report holds a report with anomalous rows *)
C23_Witness ==
    /\ last.op = "load_metrics_history"
    /\ last.file.kind = "dict"
    /\ Len(metrics_history) = 1
    /\ metrics_history[1].details.completeness.overall = 10000
    /\ report_file.kind = "dict"
    /\ json_load_report(report_file.data).details.indices_anomalias # <<>>

---------------------------------------------------------------------------
(* Properties of the configuration manager *)

(* the Config a file holds: <<>> when there is no file or the schema
   rejects it *)
ConfigIn(file) ==
    IF file.kind = "missing" THEN <<>>
    ELSE Config(yaml_safe_load(file.data)).config

(* C24: after any sequence of load, get, save and reload calls, get()
   returns the Config established by the most recent successful load,
   reload or save, and reads the file only when nothing is cached (it then
   loads, and raises when that load does); reload() always discards the
   cache, and returns the Config of the file as it is then, leaving it
   cached (when the file is missing or invalid it raises and nothing is
   cached). *)
C24_GetReturnsEstablished ==
    [][/\ (last'.op = "get" /\ cached_config # <<>>)
          => /\ last'.status = "returned"
             /\ last'.returned = established
             /\ last'.returned = cached_config
             /\ cached_config' = cached_config
       /\ (last'.op = "get" /\ cached_config = <<>>)
          => /\ (last'.status = "returned") = (ConfigIn(config_yaml) # <<>>)
             /\ last'.returned = ConfigIn(config_yaml)
             /\ cached_config' = ConfigIn(config_yaml)
       /\ (last'.op = "get" /\ last'.status = "returned")
          => last'.returned = established'
       /\ last'.op = "reload"
          => /\ (last'.status = "returned") = (ConfigIn(config_yaml) # <<>>)
             /\ last'.returned = ConfigIn(config_yaml)
             /\ cached_config' = ConfigIn(config_yaml)
       /\ (last'.op = "save" /\ last'.status = "returned")
          => /\ cached_config' = established'
             /\ ConfigIn(config_yaml') = cached_config'
       /\ cached_config' # <<>> => cached_config' = established']_vars

(* C24 witness: get returned the cached Config of an earlier save although
   the file was changed since and now holds another Config *)
C24_Witness ==
    /\ last.op = "get"
    /\ last.status = "returned"
    /\ last.returned = established
    /\ last.returned[1] \in SavedConfigs
    /\ ConfigIn(config_yaml) # <<>>
    /\ ConfigIn(config_yaml) # last.returned

====
